---- MODULE Spec2Model ----
(***************************************************************************)
(* RanobeDB Light Novels metadata source (src/ranobedb_light_novels).      *)
(*                                                                         *)
(* The model follows RanobeDBLightNovels: the class-wide rate limiter      *)
(* (_rate_limit), the API client (_make_api_request, _search_books,        *)
(* _get_book_details), identify and download_cover, run by several host    *)
(* threads at once.  Text values are sequences of tokens (a token is a     *)
(* TLA+ string), so that joining, validation and str() are computed and    *)
(* not assumed.                                                            *)
(***************************************************************************)
EXTENDS Integers, Sequences, FiniteSets, TLC

(***************************************************************************)
(* Bounds of the model.                                                    *)
(***************************************************************************)
\* clock ticks per second: RATE_LIMIT_DELAY is 1.0 s
TicksPerSecond == 2
\* longest candidate list a search response carries in the model
MaxCandidates == 2
\* _rate_limit calls each thread makes when the limiter is run on its own
MaxRateCalls == 2
\* how far below 1 and above 25 the max_results preference is tried
PrefSpan == 3
\* most comma-separated codes in a language_order preference
MaxTokens == 2
\* most staff entries of an edition, and most editions of a book
MaxStaff == 1
MaxEditions == 2
\* most tag entries of a series
MaxTags == 3
\* most entries of a series' book list
MaxMembers == 2
\* most entries of a book's titles list
MaxTitles == 2
\* most releases of a book
MaxReleases == 2

Threads == {"t1", "t2", "t3"}
\* the thread on which the host runs identify and download_cover
Host == "t1"
NoThread == "free"

\* Python's None, for text values
None == <<"None">>
Empty == <<>>

RECURSIVE Join(_, _)
\* sep.join(parts) of Python, parts a sequence of token sequences
Join(parts, sep) ==
    IF Len(parts) = 0 THEN <<>>
    ELSE IF Len(parts) = 1 THEN parts[1]
    ELSE parts[1] \o sep \o Join(Tail(parts), sep)

\* Python truthiness of an optional text value
Truthy(s) == s # None /\ s # Empty

(***************************************************************************)
(* Program constants.                                                      *)
(***************************************************************************)
RATE_LIMIT_DELAY == 1 * TicksPerSecond
IMAGE_BASE_URL == <<"https://images.ranobedb.org">>

(***************************************************************************)
(* check_isbn (tests/mock_calibre.py): strip hyphens and spaces, accept    *)
(* 13 digits or 9 digits followed by a digit or X.                         *)
(***************************************************************************)
Digits == {"0", "1", "2", "3", "4", "5", "6", "7", "8", "9"}

RECURSIVE StripIsbn(_)
StripIsbn(s) ==
    IF Len(s) = 0 THEN <<>>
    ELSE IF Head(s) \in {"-", " "} THEN StripIsbn(Tail(s))
    ELSE <<Head(s)>> \o StripIsbn(Tail(s))

IsDigitStr(s) == Len(s) > 0 /\ \A i \in 1..Len(s) : s[i] \in Digits

check_isbn(isbn) ==
    IF ~Truthy(isbn) THEN None
    ELSE LET s == StripIsbn(isbn) IN
         IF Len(s) = 10
         THEN IF IsDigitStr(SubSeq(s, 1, 9)) /\ (s[10] \in Digits \/ s[10] \in {"X", "x"})
              THEN s ELSE None
         ELSE IF Len(s) = 13
         THEN IF IsDigitStr(s) THEN s ELSE None
         ELSE None

Isbn13 == <<"9", "7", "8", "1", "2", "3", "4", "5", "6", "7", "8", "9", "7">>
Isbn13Hyphen == <<"9", "7", "8", "-">> \o SubSeq(Isbn13, 4, 13)
IsbnBad == <<"1", "2", "3", "4", "5">>

(***************************************************************************)
(* The remote catalog.  A response is what open_novisit/read/json.loads    *)
(* give: the transport raises (error, timeout), the body is not JSON, or   *)
(* the body parses to a JSON value.  A JSON value is kept by its type, by  *)
(* whether Python's `key in value` holds for the endpoint's key, and by    *)
(* the payload under that key.  "null" stands for every falsy value        *)
(* (null, 0, "", [], {}), "number" for a non-zero number or true.          *)
(***************************************************************************)
BookIds == {1, 2}
\* a candidate without a usable id (absent, null or 0): `not book_id`
NoId == 0

\* str(id) and its inverse on the catalog's ids
Str(i) == <<ToString(i)>>
BookOf(s) == CHOOSE i \in BookIds \cup {NoId} : Str(i) = s

\* the image of book i, when it has one
Filenames(i) == {None, <<ToString(i), ".jpg">>}
ReleaseLists == {<<>>, <<Isbn13>>}
\* c_release_date: absent, an integer YYYYMMDD, or (malformed) a string
DateKinds == {"absent", "int", "str"}

Records(i) ==
    [id : {i}, filename : Filenames(i), releases : ReleaseLists, c_release_date : DateKinds]
NoRecord == [id |-> NoId, filename |-> None, releases |-> <<>>, c_release_date |-> "absent"]

\* the value under 'book': a record, a falsy value, or a non-zero number
BookValues(i) ==
    {[vtype |-> "dict", rec |-> r] : r \in Records(i)}
        \cup {[vtype |-> v, rec |-> NoRecord] : v \in {"null", "number"}}
NullBook == [vtype |-> "null", rec |-> NoRecord]

DetailBodies(i) ==
    {[jtype |-> "object", key |-> TRUE, book |-> b] : b \in BookValues(i)}
        \cup {[jtype |-> j, key |-> k, book |-> NullBook] :
                 j \in {"object", "string", "array"}, k \in {FALSE}}
        \cup {[jtype |-> j, key |-> TRUE, book |-> NullBook] : j \in {"string", "array"}}
        \cup {[jtype |-> j, key |-> FALSE, book |-> NullBook] : j \in {"null", "number"}}
NullDetailBody == [jtype |-> "null", key |-> FALSE, book |-> NullBook]

Statuses == {"error", "timeout", "nonjson"}

DetailResponses(i) ==
    {[status |-> s, body |-> NullDetailBody] : s \in Statuses}
        \cup {[status |-> "json", body |-> b] : b \in DetailBodies(i)}

\* search candidates: summary objects, each with an id or without one
Candidates == BookIds \cup {NoId}
SeqsUpTo(S, n) == UNION {[1..k -> S] : k \in 0..n}
\* the service lists a book at most once in one response
CandidateLists ==
    {c \in SeqsUpTo(Candidates, MaxCandidates) :
        \A i, j \in 1..Len(c) : (i # j /\ c[i] # NoId) => c[i] # c[j]}

BooksValues ==
    {[vtype |-> "list", items |-> c] : c \in CandidateLists}
        \cup {[vtype |-> v, items |-> <<>>] : v \in {"null", "number"}}
NullBooks == [vtype |-> "null", items |-> <<>>]
EmptyList == [vtype |-> "list", items |-> <<>>]

SearchBodies ==
    {[jtype |-> "object", key |-> TRUE, books |-> b] : b \in BooksValues}
        \cup {[jtype |-> j, key |-> FALSE, books |-> NullBooks] :
                 j \in {"object", "string", "array", "null", "number"}}
        \cup {[jtype |-> j, key |-> TRUE, books |-> NullBooks] : j \in {"string", "array"}}
NullSearchBody == [jtype |-> "null", key |-> FALSE, books |-> NullBooks]

SearchResponses ==
    {[status |-> s, body |-> NullSearchBody] : s \in Statuses}
        \cup {[status |-> "json", body |-> b] : b \in SearchBodies}

\* the image fetch: the transport raises, or bytes (possibly none) arrive
CoverResponses == {"error", "timeout", "empty", "bytes"}

\* What a response is, whatever the client makes of it: a transport or
\* parse failure, a well-formed answer without data, a well-formed answer
\* with data, or JSON of another shape.
DetailClass(resp) ==
    IF resp.status # "json" THEN "failed"
    ELSE IF resp.body.jtype = "null" THEN "notfound"
    ELSE IF resp.body.jtype # "object" THEN "malformed"
    ELSE IF ~resp.body.key \/ resp.body.book.vtype = "null" THEN "notfound"
    ELSE IF resp.body.book.vtype = "dict" /\ resp.body.book.rec.c_release_date # "str"
         THEN "record"
    ELSE "malformed"

SearchClass(resp) ==
    IF resp.status # "json" THEN "failed"
    ELSE IF resp.body.jtype = "null" THEN "notfound"
    ELSE IF resp.body.jtype # "object" THEN "malformed"
    ELSE IF ~resp.body.key \/ resp.body.books.vtype = "null" THEN "notfound"
    ELSE IF resp.body.books.vtype = "list" THEN "list"
    ELSE "malformed"

(***************************************************************************)
(* API client: _make_api_request, _search_books, _get_book_details.        *)
(***************************************************************************)
\* a faulty variant: a detail request that failed is answered with a record
\* kept from before
StaleRecordOnFailure(resp, nullBody) ==
    IF resp.status = "json" THEN resp.body
    ELSE IF nullBody = NullDetailBody
    THEN [jtype |-> "object", key |-> TRUE,
          book |-> [vtype |-> "dict",
                    rec |-> [id |-> 1, filename |-> <<"1", ".jpg">>, releases |-> <<Isbn13>>,
                             c_release_date |-> "absent"]]]
    ELSE nullBody

\* try: open_novisit, read, json.loads; except Exception: return None
make_api_request(resp, nullBody) ==
    IF resp.status = "json" THEN resp.body ELSE nullBody

\* a faulty variant: no try/except around open_novisit, read and json.loads
RaisesOnFailure(resp) == resp.status # "json"

\* `except Exception` catches whatever open_novisit, read and json.loads raise
make_api_request_raises(resp) == FALSE

\* Python's `key in response`, reached only for a truthy response: a
\* number is not iterable (TypeError)
InRaises(body) == body.jtype = "number"
\* Python's response[key], reached when `key in response` held: a string
\* or a list cannot be indexed by a string (TypeError)
SubscriptRaises(body) == body.jtype \in {"string", "array"} /\ body.key

\* `if response and 'books' in response: return response['books']`
search_books_raises(body) == InRaises(body) \/ SubscriptRaises(body)
search_books(body) ==
    IF body.jtype = "object" /\ body.key THEN body.books ELSE EmptyList

\* `if response and 'book' in response: return response['book']`
get_book_details_raises(body) == InRaises(body) \/ SubscriptRaises(body)
get_book_details(body) ==
    IF body.jtype = "object" /\ body.key THEN body.book ELSE NullBook

\* `if not search_results`
SearchResultsFalsy(sr) == sr.vtype = "null" \/ (sr.vtype = "list" /\ Len(sr.items) = 0)
\* `if book_data`
BookDataTruthy(b) == b.vtype # "null"

(***************************************************************************)
(* Field extraction, as far as identify's control flow depends on it.      *)
(***************************************************************************)
\* a faulty variant: only the first release is looked at
IsbnOfFirstRelease(releases) ==
    IF Len(releases) = 0 THEN None ELSE check_isbn(Head(releases))

RECURSIVE extract_isbn(_)
\* first release whose isbn13 passes check_isbn
extract_isbn(releases) ==
    IF Len(releases) = 0 THEN None
    ELSE IF Truthy(Head(releases)) /\ Truthy(check_isbn(Head(releases)))
         THEN check_isbn(Head(releases))
    ELSE extract_isbn(Tail(releases))

\* `if not date_int or date_int <= 0` compares before the try block: a
\* string value raises TypeError out of _parse_date
parse_date_raises(rec) == rec.c_release_date = "str"

\* a faulty variant: the filename is taken for the URL
FilenameAsUrl(rec) == rec.filename

get_cover_url(rec) ==
    IF Truthy(rec.filename) THEN IMAGE_BASE_URL \o <<"/">> \o rec.filename ELSE None

\* the value under 'book' is used as a dict: a number has no .get
book_to_metadata_raises(b) == b.vtype # "dict" \/ parse_date_raises(b.rec)

\* the Metadata object, as far as the orchestrator reads it
Metadata(rec, relevance) ==
    [id |-> Str(rec.id), source_relevance |-> relevance]

(***************************************************************************)
(* _create_search_query and the query identify sends.                      *)
(***************************************************************************)
LowerTok(c) == IF c \in {"Unknown", "UNKNOWN"} THEN "unknown" ELSE c
Lower(s) == [i \in 1..Len(s) |-> LowerTok(s[i])]

\* a faulty variant: the placeholder is compared as it is spelled
CaseSensitivePlaceholder(title, authors) ==
    LET p1 == IF Truthy(title) THEN <<title>> ELSE <<>>
        p2 == IF Len(authors) > 0
                 /\ Truthy(authors[1]) /\ authors[1] # <<"unknown">>
              THEN <<authors[1]>> ELSE <<>>
    IN  Join(p1 \o p2, <<" ">>)

create_search_query(title, authors) ==
    LET p1 == IF Truthy(title) THEN <<title>> ELSE <<>>
        p2 == IF Len(authors) > 0
                 /\ Truthy(authors[1]) /\ Lower(authors[1]) # <<"unknown">>
              THEN <<authors[1]>> ELSE <<>>
    IN  Join(p1 \o p2, <<" ">>)

\* a faulty variant: the identifier is used as given, check_isbn left out
UnvalidatedIsbn(isbn) == isbn

\* `isbn = identifiers.get('isbn'); if isbn: isbn = check_isbn(isbn)`
ValidatedIsbn(isbn) == IF Truthy(isbn) THEN check_isbn(isbn) ELSE isbn

\* `if not query and not isbn`
InsufficientMetadata(query, isbn) == ~Truthy(query) /\ ~Truthy(isbn)

\* `query = isbn if not query else f'{query} {isbn}'`
FinalQuery(query, isbn) ==
    IF Truthy(isbn)
    THEN IF ~Truthy(query) THEN isbn ELSE query \o <<" ">> \o isbn
    ELSE query

\* what the host passes to identify and download_cover
Inputs ==
    {[ranobedb |-> None, title |-> <<"Overlord">>, authors |-> <<>>, isbn |-> None],
     [ranobedb |-> Str(1), title |-> None, authors |-> <<>>, isbn |-> None],
     [ranobedb |-> Str(1), title |-> <<"Overlord">>, authors |-> << <<"Unknown">> >>,
        isbn |-> None],
     [ranobedb |-> None, title |-> Empty, authors |-> <<>>, isbn |-> None],
     [ranobedb |-> None, title |-> None, authors |-> <<>>, isbn |-> Isbn13Hyphen],
     [ranobedb |-> Str(2), title |-> Empty, authors |-> <<>>, isbn |-> IsbnBad],
     [ranobedb |-> None, title |-> <<"Overlord">>, authors |-> << <<"Maruyama">> >>,
        isbn |-> Isbn13]}
NoInput == [ranobedb |-> None, title |-> None, authors |-> <<>>, isbn |-> None]

(***************************************************************************)
(* State.                                                                  *)
(***************************************************************************)
VARIABLES
    since_last_request, \* time.time() - _last_request_time in ticks, up to the delay
    rate_lock,          \* RanobeDBLightNovels._rate_lock: its holder
    cover_url_cache,    \* identifier -> cover URL
    isbn_cache,         \* ISBN -> identifier
    pc,                 \* each thread's position
    op,                 \* the host call the thread runs
    inp,                \* its arguments
    calls,              \* calls of _rate_limit the thread has made on its own
    abort,              \* its abort event
    req,                \* the request being made
    sleep_left,         \* what is left of the thread's time.sleep
    search_results,     \* identify's search_results
    relevance,          \* identify's loop index
    result_queue,       \* the queue identify fills
    cover_queue,        \* the queue download_cover fills
    cached_url,         \* download_cover's cached_url
    \* history, read by the properties only
    fresh,              \* no grant was made since the thread read the timestamp
    lastGap,            \* time between the latest grant and the one before
    staleGrant,         \* a grant was made on a reading another grant had used
    nGrants,            \* grants made to the thread
    reqLog,             \* requests the thread issued in this call
    outcomes,           \* what came back for each of them
    fetched,            \* detail fetches of this call that gave book data
    observed,           \* a poll of identify found the flag set
    emitAfterSet,       \* results put on the queue while the flag was set
    \* the helper functions on their own
    fn,                 \* the helper that was called last
    fn_in,              \* its arguments
    fn_out              \* what it returned

clockVars == <<since_last_request, rate_lock>>
cacheVars == <<cover_url_cache, isbn_cache>>
callVars == <<op, inp, calls>>
loopVars == <<search_results, relevance>>
queueVars == <<result_queue, cover_queue>>
rateHist == <<fresh, lastGap, staleGrant, nGrants>>
pollHist == <<observed, emitAfterSet>>
reqHist == <<reqLog, outcomes, fetched>>
fnVars == <<fn, fn_in, fn_out>>
vars == <<clockVars, cacheVars, pc, callVars, abort, req, sleep_left, loopVars, queueVars,
          cached_url, rateHist, reqHist, pollHist, fnVars>>

NoReq == [kind |-> "none", arg |-> <<>>]
CacheIds == {Str(i) : i \in BookIds}
CacheIsbns == {Isbn13}

Init ==
    \* _last_request_time = 0 and time.time() is far beyond RATE_LIMIT_DELAY
    /\ since_last_request = RATE_LIMIT_DELAY
    /\ rate_lock = NoThread
    /\ cover_url_cache = [k \in CacheIds |-> None]
    /\ isbn_cache = [k \in CacheIsbns |-> None]
    /\ pc = [t \in Threads |-> "idle"]
    /\ op = [t \in Threads |-> "none"]
    /\ inp = [t \in Threads |-> NoInput]
    /\ calls = [t \in Threads |-> 0]
    /\ abort = [t \in Threads |-> FALSE]
    /\ req = [t \in Threads |-> NoReq]
    /\ sleep_left = [t \in Threads |-> 0]
    /\ search_results = [t \in Threads |-> <<>>]
    /\ relevance = [t \in Threads |-> 0]
    /\ result_queue = [t \in Threads |-> <<>>]
    /\ cover_queue = [t \in Threads |-> <<>>]
    /\ cached_url = [t \in Threads |-> None]
    /\ fresh = [t \in Threads |-> FALSE]
    /\ lastGap = RATE_LIMIT_DELAY
    /\ staleGrant = FALSE
    /\ nGrants = [t \in Threads |-> 0]
    /\ reqLog = [t \in Threads |-> <<>>]
    /\ outcomes = [t \in Threads |-> <<>>]
    /\ fetched = [t \in Threads |-> 0]
    /\ observed = [t \in Threads |-> FALSE]
    /\ emitAfterSet = [t \in Threads |-> 0]
    /\ fn = "none"
    /\ fn_in = <<>>
    /\ fn_out = <<>>

(***************************************************************************)
(* Time and the host.                                                      *)
(***************************************************************************)
Min(a, b) == IF a < b THEN a ELSE b
Max(a, b) == IF a > b THEN a ELSE b

\* a faulty variant: the limit is capped at 25 but not raised to 1
LimitWithoutFloor(max_results) == Min(max_results, 25)

\* `max_results = min(max(1, self.prefs.get('max_results', 10)), 25)`
SearchLimit(max_results) == Min(Max(1, max_results), 25)

\* values of the max_results preference the host is run with
HostMaxResults == {1, 10}

\* Time passes by one tick.  Once RATE_LIMIT_DELAY has elapsed since the
\* latest grant, _rate_limit cannot tell how much more has passed.
Tick ==
    /\ \/ since_last_request < RATE_LIMIT_DELAY
       \/ \E t \in Threads : sleep_left[t] > 0
    /\ since_last_request' = Min(since_last_request + 1, RATE_LIMIT_DELAY)
    /\ sleep_left' = [t \in Threads |-> Max(sleep_left[t] - 1, 0)]
    /\ UNCHANGED <<rate_lock, cacheVars, pc, callVars, abort, req, loopVars, queueVars,
                   cached_url, rateHist, reqHist, pollHist, fnVars>>

\* the host sets the thread's abort event (threading.Event.set)
SetAbort(t) ==
    /\ pc[t] \notin {"idle", "done", "raised"}
    /\ ~abort[t]
    /\ abort' = [abort EXCEPT ![t] = TRUE]
    /\ UNCHANGED <<clockVars, cacheVars, pc, callVars, req, sleep_left, loopVars, queueVars,
                   cached_url, rateHist, reqHist, pollHist, fnVars>>

\* the host calls identify(log, result_queue, abort, title, authors, identifiers)
CallIdentify(t) ==
    /\ pc[t] = "idle"
    /\ \E i \in Inputs : inp' = [inp EXCEPT ![t] = i]
    /\ op' = [op EXCEPT ![t] = "identify"]
    /\ pc' = [pc EXCEPT ![t] = "identify"]
    /\ UNCHANGED <<calls, clockVars, cacheVars, abort, req, sleep_left, loopVars, queueVars,
                   cached_url, rateHist, reqHist, pollHist, fnVars>>

\* the host calls download_cover(log, result_queue, abort, title, authors, identifiers)
CallDownloadCover(t) ==
    /\ pc[t] = "idle"
    /\ \E i \in Inputs : inp' = [inp EXCEPT ![t] = i]
    /\ op' = [op EXCEPT ![t] = "download_cover"]
    /\ pc' = [pc EXCEPT ![t] = "download_cover"]
    /\ UNCHANGED <<calls, clockVars, cacheVars, abort, req, sleep_left, loopVars, queueVars,
                   cached_url, rateHist, reqHist, pollHist, fnVars>>

(***************************************************************************)
(* _rate_limit: with self._rate_lock: elapsed, sleep, stamp.               *)
(***************************************************************************)
\* a faulty variant: _rate_limit without the lock
LockAlwaysAvailable == TRUE

\* `with self._rate_lock:` blocks until the class-wide lock is free
LockAvailable == rate_lock = NoThread

\* time.sleep(self.RATE_LIMIT_DELAY - elapsed)
SleepTime(elapsed) == RATE_LIMIT_DELAY - elapsed

\* acquire the lock; elapsed = time.time() - _last_request_time
RateLimitEnter(t) ==
    /\ pc[t] = "rate_limit"
    /\ LockAvailable
    /\ rate_lock' = t
    /\ fresh' = [fresh EXCEPT ![t] = TRUE]
    /\ LET elapsed == since_last_request IN
         IF elapsed < RATE_LIMIT_DELAY
         THEN /\ sleep_left' = [sleep_left EXCEPT ![t] = SleepTime(elapsed)]
              /\ pc' = [pc EXCEPT ![t] = "sleep"]
         ELSE /\ sleep_left' = sleep_left
              /\ pc' = [pc EXCEPT ![t] = "stamp"]
    /\ UNCHANGED <<since_last_request, cacheVars, callVars, abort, req, loopVars,
                   queueVars, cached_url, lastGap, staleGrant, nGrants, reqHist, pollHist, fnVars>>

\* time.sleep returns once the time asked for has passed
RateLimitSleep(t) ==
    /\ pc[t] = "sleep"
    /\ sleep_left[t] = 0
    /\ pc' = [pc EXCEPT ![t] = "stamp"]
    /\ UNCHANGED <<clockVars, cacheVars, callVars, abort, req, sleep_left, loopVars,
                   queueVars, cached_url, rateHist, reqHist, pollHist, fnVars>>

\* a faulty variant: the lock is not released when _rate_limit returns
LockKeptOnExit(t) == t

\* the end of `with self._rate_lock:` releases the lock
LockOnExit(t) == NoThread

\* _last_request_time = time.time(); the with block releases the lock
RateLimitStamp(t) ==
    /\ pc[t] = "stamp"
    /\ since_last_request' = 0
    /\ rate_lock' = LockOnExit(t)
    /\ lastGap' = since_last_request
    /\ staleGrant' = (staleGrant \/ ~fresh[t])
    /\ fresh' = [u \in Threads |-> FALSE]
    /\ nGrants' = [nGrants EXCEPT ![t] = @ + 1]
    /\ pc' = [pc EXCEPT ![t] = "open"]
    /\ UNCHANGED <<cacheVars, callVars, abort, req, sleep_left, loopVars, queueVars,
                   cached_url, reqHist, pollHist, fnVars>>

(***************************************************************************)
(* The request itself: br.open_novisit(url, timeout=timeout).              *)
(***************************************************************************)
\* a faulty variant: the request is opened without calling _rate_limit
ApiRequestStartsUngranted == "open"

\* _make_api_request starts with self._rate_limit()
ApiRequestStart == "rate_limit"

OpenNovisit(t) ==
    /\ pc[t] = "open"
    /\ req[t] # NoReq
    /\ reqLog' = [reqLog EXCEPT ![t] = Append(@, req[t])]
    /\ pc' = [pc EXCEPT ![t] = "wait"]
    /\ UNCHANGED <<clockVars, cacheVars, callVars, abort, req, sleep_left, loopVars, queueVars,
                   cached_url, rateHist, outcomes, fetched, pollHist, fnVars>>

(***************************************************************************)
(* The caches of the Source base class (tests/mock_calibre.py).            *)
(***************************************************************************)
cache_isbn_to_identifier(cache, isbn, identifier) ==
    [cache EXCEPT ![isbn] = identifier]
\* a faulty variant: an entry that is there already is dropped
ToggleCoverUrl(cache, identifier, url) ==
    [cache EXCEPT ![identifier] = IF @ = None THEN url ELSE None]

cache_identifier_to_cover_url(cache, identifier, url) ==
    [cache EXCEPT ![identifier] = url]
cached_identifier_to_cover_url(cache, identifier) ==
    IF identifier \in DOMAIN cache THEN cache[identifier] ELSE None
\* get_cached_cover_url(identifiers)
get_cached_cover_url(cache, ranobedb_id) ==
    IF Truthy(ranobedb_id) THEN cached_identifier_to_cover_url(cache, ranobedb_id) ELSE None

(***************************************************************************)
(* identify.                                                               *)
(***************************************************************************)
\* abort.is_set()
AbortIsSet(t) == abort[t]
\* faulty variants: the loop never polls, or polls before the first candidate only
LoopAbortNeverPolled(t) == FALSE
LoopAbortPolledOnce(t) == abort[t] /\ relevance[t] = 0

\* abort.is_set() at the head of the candidate loop
LoopAbortIsSet(t) == abort[t]

\* `return None`: back to the host, or to download_cover when it made the call
IdentifyReturn(t) == IF op[t] = "identify" THEN "done" ELSE "after_identify"
\* a faulty variant: no return after the direct lookup's result
DirectFoundFallsThrough(t) == "query"

\* after the direct lookup's result_queue.put: return None
DirectFoundNext(t) == IdentifyReturn(t)
\* a faulty variant: identify gives up when the direct lookup finds nothing
DirectMissingReturns(t) == IdentifyReturn(t)

\* the direct lookup gave no book: log a warning and go on to the search
DirectMissingNext(t) == "query"
\* a faulty variant: the rank counts the results emitted so far
RelevanceCountsResults(t) == Len(result_queue[t])

\* the relevance a candidate's result gets: its index in enumerate(search_results)
CandidateRelevance(t) == relevance[t]

\* _book_to_metadata(book_data, relevance, log) followed by result_queue.put(mi):
\* the ISBN is cached before the date is parsed, the cover URL after it
Normalize(t, b, rank) ==
    /\ isbn_cache' =
          IF b.vtype = "dict" /\ Truthy(extract_isbn(b.rec.releases))
          THEN cache_isbn_to_identifier(isbn_cache, extract_isbn(b.rec.releases),
                                        Str(b.rec.id))
          ELSE isbn_cache
    /\ IF book_to_metadata_raises(b)
       THEN UNCHANGED <<cover_url_cache, result_queue, emitAfterSet>>
       ELSE /\ cover_url_cache' =
                  IF Truthy(get_cover_url(b.rec))
                  THEN cache_identifier_to_cover_url(cover_url_cache, Str(b.rec.id),
                                                     get_cover_url(b.rec))
                  ELSE cover_url_cache
            /\ result_queue' = [result_queue EXCEPT ![t] = Append(@, Metadata(b.rec, rank))]
            /\ emitAfterSet' = [emitAfterSet EXCEPT ![t] = IF abort[t] THEN @ + 1 ELSE @]

\* identify up to the direct lookup: ranobedb_id = identifiers.get('ranobedb')
IdentifyEntry(t) ==
    /\ pc[t] = "identify"
    /\ IF Truthy(inp[t].ranobedb)
       THEN IF AbortIsSet(t)
            THEN /\ pc' = [pc EXCEPT ![t] = IdentifyReturn(t)]
                 /\ observed' = [observed EXCEPT ![t] = TRUE]
                 /\ req' = req
            ELSE /\ pc' = [pc EXCEPT ![t] = ApiRequestStart]
                 /\ req' = [req EXCEPT ![t] = [kind |-> "direct", arg |-> inp[t].ranobedb]]
                 /\ observed' = observed
       ELSE /\ pc' = [pc EXCEPT ![t] = "query"]
            /\ UNCHANGED <<req, observed>>
    /\ UNCHANGED <<clockVars, cacheVars, callVars, abort, sleep_left, loopVars, queueVars,
                   cached_url, rateHist, reqHist, emitAfterSet, fnVars>>

\* the answer to GET /book/{ranobedb_id}
DirectResponse(t) ==
    /\ pc[t] = "wait"
    /\ req[t].kind = "direct"
    /\ \E resp \in DetailResponses(BookOf(req[t].arg)) :
         LET body == make_api_request(resp, NullDetailBody)
             book_data == get_book_details(body)
         IN  /\ outcomes' = [outcomes EXCEPT ![t] = Append(@, DetailClass(resp))]
             /\ fetched' = [fetched EXCEPT ![t] =
                               IF ~make_api_request_raises(resp)
                                  /\ ~get_book_details_raises(body)
                                  /\ BookDataTruthy(book_data)
                               THEN @ + 1 ELSE @]
             /\ IF make_api_request_raises(resp) \/ get_book_details_raises(body)
                THEN /\ pc' = [pc EXCEPT ![t] = "raised"]
                     /\ UNCHANGED <<cacheVars, result_queue, emitAfterSet>>
                ELSE IF BookDataTruthy(book_data)
                THEN /\ Normalize(t, book_data, 0)
                     /\ pc' = [pc EXCEPT ![t] =
                                 IF book_to_metadata_raises(book_data)
                                 THEN "raised" ELSE DirectFoundNext(t)]
                ELSE /\ pc' = [pc EXCEPT ![t] = DirectMissingNext(t)]
                     /\ UNCHANGED <<cacheVars, result_queue, emitAfterSet>>
    /\ req' = [req EXCEPT ![t] = NoReq]
    /\ UNCHANGED <<clockVars, callVars, abort, sleep_left, loopVars, cover_queue, cached_url,
                   rateHist, reqLog, observed, fnVars>>

\* identify from `isbn = identifiers.get('isbn')` to the search request
BuildQuery(t) ==
    /\ pc[t] = "query"
    /\ LET isbn == ValidatedIsbn(inp[t].isbn)
           query == create_search_query(inp[t].title, inp[t].authors)
       IN  IF InsufficientMetadata(query, isbn)
           THEN /\ pc' = [pc EXCEPT ![t] = IdentifyReturn(t)]
                /\ UNCHANGED <<req, observed>>
           ELSE IF AbortIsSet(t)
           THEN /\ pc' = [pc EXCEPT ![t] = IdentifyReturn(t)]
                /\ observed' = [observed EXCEPT ![t] = TRUE]
                /\ req' = req
           ELSE /\ pc' = [pc EXCEPT ![t] = ApiRequestStart]
                /\ \E max_results \in HostMaxResults :
                      req' = [req EXCEPT ![t] =
                                [kind |-> "search", arg |-> FinalQuery(query, isbn),
                                 limit |-> SearchLimit(max_results)]]
                /\ observed' = observed
    /\ UNCHANGED <<clockVars, cacheVars, callVars, abort, sleep_left, loopVars, queueVars,
                   cached_url, rateHist, reqHist, emitAfterSet, fnVars>>

\* the answer to GET /books?q=...: search_results = self._search_books(...)
SearchResponse(t) ==
    /\ pc[t] = "wait"
    /\ req[t].kind = "search"
    /\ \E resp \in SearchResponses :
         LET body == make_api_request(resp, NullSearchBody)
             sr == search_books(body)
         IN  /\ outcomes' = [outcomes EXCEPT ![t] = Append(@, SearchClass(resp))]
             /\ IF make_api_request_raises(resp) \/ search_books_raises(body)
                THEN /\ pc' = [pc EXCEPT ![t] = "raised"]
                     /\ UNCHANGED loopVars
                ELSE IF SearchResultsFalsy(sr)
                THEN /\ pc' = [pc EXCEPT ![t] = IdentifyReturn(t)]
                     /\ UNCHANGED loopVars
                ELSE IF sr.vtype # "list"
                \* len(search_results), enumerate(search_results) of a number
                THEN /\ pc' = [pc EXCEPT ![t] = "raised"]
                     /\ UNCHANGED loopVars
                ELSE /\ pc' = [pc EXCEPT ![t] = "loop"]
                     /\ search_results' = [search_results EXCEPT ![t] = sr.items]
                     /\ relevance' = [relevance EXCEPT ![t] = 0]
    /\ req' = [req EXCEPT ![t] = NoReq]
    /\ UNCHANGED <<clockVars, cacheVars, callVars, abort, sleep_left, queueVars, cached_url,
                   rateHist, reqLog, fetched, pollHist, fnVars>>

\* `for relevance, book in enumerate(search_results)` up to the detail request
LoopNext(t) ==
    /\ pc[t] = "loop"
    /\ IF relevance[t] >= Len(search_results[t])
       THEN /\ pc' = [pc EXCEPT ![t] = IdentifyReturn(t)]
            /\ UNCHANGED <<req, relevance, observed>>
       ELSE IF LoopAbortIsSet(t)
       THEN /\ pc' = [pc EXCEPT ![t] = IdentifyReturn(t)]
            /\ observed' = [observed EXCEPT ![t] = TRUE]
            /\ UNCHANGED <<req, relevance>>
       ELSE LET book_id == search_results[t][relevance[t] + 1] IN
            IF book_id = NoId
            THEN /\ relevance' = [relevance EXCEPT ![t] = @ + 1]
                 /\ UNCHANGED <<pc, req, observed>>
            ELSE /\ pc' = [pc EXCEPT ![t] = ApiRequestStart]
                 /\ req' = [req EXCEPT ![t] = [kind |-> "detail", arg |-> Str(book_id)]]
                 /\ UNCHANGED <<relevance, observed>>
    /\ UNCHANGED <<clockVars, cacheVars, callVars, abort, sleep_left, search_results, queueVars,
                   cached_url, rateHist, reqHist, emitAfterSet, fnVars>>

\* a faulty variant: the loop stays at the candidate it has fetched
LoopStays(k) == k

\* `for relevance, book in enumerate(search_results)`: on to the next candidate
LoopAdvance(k) == k + 1

\* the answer to GET /book/{book_id} for a candidate
DetailResponse(t) ==
    /\ pc[t] = "wait"
    /\ req[t].kind = "detail"
    /\ \E resp \in DetailResponses(BookOf(req[t].arg)) :
         LET body == make_api_request(resp, NullDetailBody)
             book_data == get_book_details(body)
         IN  /\ outcomes' = [outcomes EXCEPT ![t] = Append(@, DetailClass(resp))]
             /\ fetched' = [fetched EXCEPT ![t] =
                               IF ~make_api_request_raises(resp)
                                  /\ ~get_book_details_raises(body)
                                  /\ BookDataTruthy(book_data)
                               THEN @ + 1 ELSE @]
             /\ IF make_api_request_raises(resp) \/ get_book_details_raises(body)
                THEN /\ pc' = [pc EXCEPT ![t] = "raised"]
                     /\ UNCHANGED <<cacheVars, result_queue, emitAfterSet, relevance>>
                ELSE IF BookDataTruthy(book_data)
                THEN /\ Normalize(t, book_data, CandidateRelevance(t))
                     /\ IF book_to_metadata_raises(book_data)
                        THEN /\ pc' = [pc EXCEPT ![t] = "raised"]
                             /\ relevance' = relevance
                        ELSE /\ pc' = [pc EXCEPT ![t] = "loop"]
                             /\ relevance' = [relevance EXCEPT ![t] = LoopAdvance(@)]
                ELSE /\ pc' = [pc EXCEPT ![t] = "loop"]
                     /\ relevance' = [relevance EXCEPT ![t] = LoopAdvance(@)]
                     /\ UNCHANGED <<cacheVars, result_queue, emitAfterSet>>
    /\ req' = [req EXCEPT ![t] = NoReq]
    /\ UNCHANGED <<clockVars, callVars, abort, sleep_left, search_results, cover_queue,
                   cached_url, rateHist, reqLog, observed, fnVars>>

(***************************************************************************)
(* download_cover.                                                         *)
(***************************************************************************)
RECURSIVE InsertByRelevance(_, _)
InsertByRelevance(mi, sorted) ==
    IF Len(sorted) = 0 THEN <<mi>>
    ELSE IF mi.source_relevance < Head(sorted).source_relevance THEN <<mi>> \o sorted
    ELSE <<Head(sorted)>> \o InsertByRelevance(mi, Tail(sorted))

RECURSIVE SortByRelevance(_)
\* results.sort(key=lambda x: x.source_relevance): stable, ascending
SortByRelevance(results) ==
    IF Len(results) = 0 THEN <<>>
    ELSE InsertByRelevance(results[Len(results)],
                           SortByRelevance(SubSeq(results, 1, Len(results) - 1)))

\* a faulty variant: the scan does not stop at the first result with a URL
ScanKeepsLast(cache, results) ==
    LET withUrl == {k \in 1..Len(results) : Truthy(cache[results[k].id])}
    IN  IF withUrl = {} THEN None
        ELSE cache[results[CHOOSE k \in withUrl : \A j \in withUrl : j <= k].id]

RECURSIVE ScanForCover(_, _)
\* for mi in results: cached_url = get_cached_cover_url(mi.identifiers); break if found
ScanForCover(cache, results) ==
    IF Len(results) = 0 THEN None
    ELSE IF Truthy(get_cached_cover_url(cache, Head(results).id))
         THEN get_cached_cover_url(cache, Head(results).id)
    ELSE ScanForCover(cache, Tail(results))

\* download_cover calls self._rate_limit() itself before open_novisit
CoverRequestStart == "rate_limit"

\* cached_url = self.get_cached_cover_url(identifiers); identify on a miss
DownloadCoverEntry(t) ==
    /\ pc[t] = "download_cover"
    /\ LET url == get_cached_cover_url(cover_url_cache, inp[t].ranobedb) IN
         /\ cached_url' = [cached_url EXCEPT ![t] = url]
         /\ pc' = [pc EXCEPT ![t] = IF url = None THEN "identify" ELSE "cover_poll"]
    /\ UNCHANGED <<clockVars, cacheVars, callVars, abort, req, sleep_left, loopVars, queueVars,
                   rateHist, reqHist, pollHist, fnVars>>

\* identify has returned: poll, drain rq, sort, scan for a cached URL
AfterIdentify(t) ==
    /\ pc[t] = "after_identify"
    /\ IF AbortIsSet(t)
       THEN /\ pc' = [pc EXCEPT ![t] = "done"]
            /\ cached_url' = cached_url
       ELSE LET url == ScanForCover(cover_url_cache, SortByRelevance(result_queue[t])) IN
            /\ cached_url' = [cached_url EXCEPT ![t] = url]
            /\ pc' = [pc EXCEPT ![t] = IF url = None THEN "done" ELSE "cover_poll"]
    /\ UNCHANGED <<clockVars, cacheVars, callVars, abort, req, sleep_left, loopVars, queueVars,
                   rateHist, reqHist, pollHist, fnVars>>

\* a faulty variant: no poll between the lookup of the URL and the image fetch
FetchAbortNeverPolled(t) == FALSE

\* abort.is_set() before the image fetch
FetchAbortIsSet(t) == abort[t]

\* `if abort.is_set(): return` before the image fetch
CoverPoll(t) ==
    /\ pc[t] = "cover_poll"
    /\ IF FetchAbortIsSet(t)
       THEN /\ pc' = [pc EXCEPT ![t] = "done"]
            /\ req' = req
       ELSE /\ pc' = [pc EXCEPT ![t] = CoverRequestStart]
            /\ req' = [req EXCEPT ![t] = [kind |-> "cover", arg |-> cached_url[t]]]
    /\ UNCHANGED <<clockVars, cacheVars, callVars, abort, sleep_left, loopVars, queueVars,
                   cached_url, rateHist, reqHist, pollHist, fnVars>>

\* a faulty variant: the bytes are put on the queue without `if cover_data`
CoverDataUnchecked(r) == r \in {"bytes", "empty"}

\* `if cover_data:` the read returned a non-empty byte string
CoverDataTruthy(r) == r = "bytes"

\* cover_data = br.open_novisit(cached_url).read(), inside try/except Exception
CoverResponse(t) ==
    /\ pc[t] = "wait"
    /\ req[t].kind = "cover"
    /\ \E r \in CoverResponses :
         /\ outcomes' = [outcomes EXCEPT ![t] = Append(@, r)]
         /\ cover_queue' = [cover_queue EXCEPT ![t] =
                              IF CoverDataTruthy(r) THEN Append(@, req[t].arg) ELSE @]
    /\ pc' = [pc EXCEPT ![t] = "done"]
    /\ req' = [req EXCEPT ![t] = NoReq]
    /\ UNCHANGED <<clockVars, cacheVars, callVars, abort, sleep_left, loopVars, result_queue,
                   cached_url, rateHist, reqLog, fetched, pollHist, fnVars>>

(***************************************************************************)
(* The system.                                                             *)
(***************************************************************************)
\* identify or download_cover is over (it returned, or it raised into the
\* host): the thread is free for the host's next call, with a new abort
\* event and new queues
Return(t) ==
    /\ pc[t] \in {"done", "raised"}
    /\ pc' = [pc EXCEPT ![t] = "idle"]
    /\ op' = [op EXCEPT ![t] = "none"]
    /\ inp' = [inp EXCEPT ![t] = NoInput]
    /\ abort' = [abort EXCEPT ![t] = FALSE]
    /\ search_results' = [search_results EXCEPT ![t] = <<>>]
    /\ relevance' = [relevance EXCEPT ![t] = 0]
    /\ result_queue' = [result_queue EXCEPT ![t] = <<>>]
    /\ cover_queue' = [cover_queue EXCEPT ![t] = <<>>]
    /\ cached_url' = [cached_url EXCEPT ![t] = None]
    /\ nGrants' = [nGrants EXCEPT ![t] = 0]
    /\ reqLog' = [reqLog EXCEPT ![t] = <<>>]
    /\ outcomes' = [outcomes EXCEPT ![t] = <<>>]
    /\ fetched' = [fetched EXCEPT ![t] = 0]
    /\ observed' = [observed EXCEPT ![t] = FALSE]
    /\ emitAfterSet' = [emitAfterSet EXCEPT ![t] = 0]
    /\ UNCHANGED <<clockVars, cacheVars, calls, req, sleep_left, fresh, lastGap,
                   staleGrant, fnVars>>

HostStep(t) ==
    \/ SetAbort(t)
    \/ CallIdentify(t)
    \/ CallDownloadCover(t)
    \/ RateLimitEnter(t)
    \/ RateLimitSleep(t)
    \/ RateLimitStamp(t)
    \/ OpenNovisit(t)
    \/ IdentifyEntry(t)
    \/ DirectResponse(t)
    \/ BuildQuery(t)
    \/ SearchResponse(t)
    \/ LoopNext(t)
    \/ DetailResponse(t)
    \/ DownloadCoverEntry(t)
    \/ AfterIdentify(t)
    \/ CoverPoll(t)
    \/ CoverResponse(t)
    \/ Return(t)

Next == Tick \/ HostStep(Host)

Spec == Init /\ [][Next]_vars

\* a step of a call that is under way: of _rate_limit, of a request and its
\* answer, of identify, of download_cover
CallStep(t) ==
    \/ RateLimitEnter(t)
    \/ RateLimitSleep(t)
    \/ RateLimitStamp(t)
    \/ OpenNovisit(t)
    \/ IdentifyEntry(t)
    \/ DirectResponse(t)
    \/ BuildQuery(t)
    \/ SearchResponse(t)
    \/ LoopNext(t)
    \/ DetailResponse(t)
    \/ DownloadCoverEntry(t)
    \/ AfterIdentify(t)
    \/ CoverPoll(t)
    \/ CoverResponse(t)

\* The same when time passes, the thread of the call keeps running and every
\* request is answered (open_novisit returns or raises within its timeout).
CallFairness == WF_vars(Tick) /\ WF_vars(CallStep(Host))

\* one call of identify by the host, from its start to its end
NextIdentify ==
    \/ Tick
    \/ SetAbort(Host)
    \/ CallIdentify(Host)
    \/ RateLimitEnter(Host)
    \/ RateLimitSleep(Host)
    \/ RateLimitStamp(Host)
    \/ OpenNovisit(Host)
    \/ IdentifyEntry(Host)
    \/ DirectResponse(Host)
    \/ BuildQuery(Host)
    \/ SearchResponse(Host)
    \/ LoopNext(Host)
    \/ DetailResponse(Host)

SpecLive == Init /\ [][NextIdentify]_vars /\ CallFairness

(***************************************************************************)
(* The rate limiter on its own: every thread calls _rate_limit, as         *)
(* _make_api_request and download_cover do, up to MaxRateCalls times.      *)
(***************************************************************************)
CallRateLimit(t) ==
    /\ pc[t] = "idle"
    /\ calls[t] < MaxRateCalls
    /\ calls' = [calls EXCEPT ![t] = @ + 1]
    /\ pc' = [pc EXCEPT ![t] = "rate_limit"]
    /\ UNCHANGED <<clockVars, cacheVars, op, inp, abort, req, sleep_left, loopVars,
                   queueVars, cached_url, rateHist, reqHist, pollHist, fnVars>>

\* _rate_limit has returned to its caller
RateLimitReturn(t) ==
    /\ pc[t] = "open"
    /\ req[t] = NoReq
    /\ pc' = [pc EXCEPT ![t] = "idle"]
    /\ UNCHANGED <<clockVars, cacheVars, callVars, abort, req, sleep_left, loopVars,
                   queueVars, cached_url, rateHist, reqHist, pollHist, fnVars>>

NextRate ==
    \/ Tick
    \/ \E t \in Threads :
          \/ CallRateLimit(t)
          \/ RateLimitEnter(t)
          \/ RateLimitSleep(t)
          \/ RateLimitStamp(t)
          \/ RateLimitReturn(t)

SpecRate == Init /\ [][NextRate]_vars

\* The same with the scheduling _rate_limit relies on: time passes, a
\* thread that can run does (time.sleep returns, the stamp is written, the
\* call returns), and a thread waiting for a lock that stays free gets it.
RateFairness ==
    /\ WF_vars(Tick)
    /\ \A t \in Threads :
          /\ WF_vars(RateLimitEnter(t))
          /\ WF_vars(RateLimitSleep(t))
          /\ WF_vars(RateLimitStamp(t))
          /\ WF_vars(RateLimitReturn(t))

SpecRateFair == Init /\ [][NextRate]_vars /\ RateFairness

(***************************************************************************)
(* The helper methods on their own.  A string the helpers take apart       *)
(* (the language_order preference) is a sequence of characters; a text     *)
(* they only pass on is a sequence of tokens, as above.                    *)
(***************************************************************************)
InSeq(x, s) == \E i \in 1..Len(s) : s[i] = x

\* str.strip()
RECURSIVE LStrip(_)
LStrip(s) == IF Len(s) > 0 /\ Head(s) = " " THEN LStrip(Tail(s)) ELSE s
RECURSIVE RStrip(_)
RStrip(s) == IF Len(s) > 0 /\ s[Len(s)] = " " THEN RStrip(SubSeq(s, 1, Len(s) - 1)) ELSE s
Strip(s) == RStrip(LStrip(s))

\* str.lower(), on the letters the model writes in upper case
LowerChar(c) ==
    CASE c = "A" -> "a" [] c = "E" -> "e" [] c = "J" -> "j" [] c = "N" -> "n" [] OTHER -> c
LowerStr(s) == [i \in 1..Len(s) |-> LowerChar(s[i])]

\* str.split(sep): the pieces between the separators, one piece for ''
RECURSIVE Split(_, _)
Split(s, sep) ==
    IF \A i \in 1..Len(s) : s[i] # sep THEN <<s>>
    ELSE LET k == CHOOSE i \in 1..Len(s) : s[i] = sep /\ \A j \in 1..(i - 1) : s[j] # sep
         IN  <<SubSeq(s, 1, k - 1)>> \o Split(SubSeq(s, k + 1, Len(s)), sep)

\* for lang in ['en', 'romaji', 'ja']
LangTags == <<"en", "romaji", "ja">>
LangSet == {"en", "romaji", "ja"}

\* the codes _parse_language_order knows
CodesEn == {<<"e", "n">>, <<"e", "n", "g", "l", "i", "s", "h">>}
CodesJa == {<<"j", "a">>, <<"j", "a", "p", "a", "n", "e", "s", "e">>, <<"j", "p">>}
CodesRomaji == {<<"r", "o", "m", "a", "j", "i">>}

\* the if/elif chain that normalizes a code; "skip" is its `continue`
NormalizeLang(lang) ==
    IF lang \in CodesEn THEN "en"
    ELSE IF lang \in CodesJa THEN "ja"
    ELSE IF lang \in CodesRomaji THEN "romaji"
    ELSE "skip"

\* a faulty variant: the code is appended without `if lang not in order`
AppendAlways(order, lang) == Append(order, lang)

\* `if lang not in order: order.append(lang)`
AppendNew(order, lang) == IF InSeq(lang, order) THEN order ELSE Append(order, lang)

RECURSIVE ParseTokens(_, _)
\* for lang in order_str.split(','): strip, lower, normalize, append
ParseTokens(tokens, order) ==
    IF Len(tokens) = 0 THEN order
    ELSE LET lang == NormalizeLang(LowerStr(Strip(Head(tokens))))
         IN  ParseTokens(Tail(tokens),
                         IF lang = "skip" THEN order ELSE AppendNew(order, lang))

RECURSIVE AddFallbacks(_, _)
\* for lang in ['en', 'romaji', 'ja']: append when missing
AddFallbacks(langs, order) ==
    IF Len(langs) = 0 THEN order
    ELSE AddFallbacks(Tail(langs), AppendNew(order, Head(langs)))

parse_language_order(order_str) ==
    AddFallbacks(LangTags, ParseTokens(Split(order_str, ","), <<>>))

\* the value of a request parameter that is not sent
NoParam == "absent"

\* a faulty variant: the filter is decided before the fallbacks are appended
FilterBeforeFallbacks(order_str) ==
    LET lang_order == ParseTokens(Split(order_str, ","), <<>>)
    IN  IF Len(lang_order) > 0 /\ lang_order[1] = "en" THEN "en" ELSE NoParam

\* _search_books: `if lang_order and lang_order[0] == 'en': params['rl[]'] = 'en'`
ReleaseLanguageFilter(order_str) ==
    LET lang_order == parse_language_order(order_str)
    IN  IF Len(lang_order) > 0 /\ lang_order[1] = "en" THEN "en" ELSE NoParam

\* the params _search_books sends with GET /books
SearchParams(query, max_results, order_str) ==
    [q |-> query, limit |-> SearchLimit(max_results), rl |-> ReleaseLanguageFilter(order_str)]

\* a faulty variant: a slot counts as soon as it is not None
SlotPresent(value) == value # None

\* `if value:`
SlotFilled(value) == Truthy(value)

RECURSIVE FirstFilled(_, _)
\* for key in keys: value = options.get(key); if value: return value
FirstFilled(keys, options) ==
    IF Len(keys) = 0 THEN None
    ELSE LET value == IF Head(keys) \in DOMAIN options THEN options[Head(keys)] ELSE None
         IN  IF SlotFilled(value) THEN value ELSE FirstFilled(Tail(keys), options)

\* _select_by_language(options); iter is the order in which options.values()
\* yields the slots
select_by_language(order_str, options, iter) ==
    LET value == FirstFilled(parse_language_order(order_str), options)
    IN  IF value # None THEN value ELSE FirstFilled(iter, options)

\* a faulty variant: every staff entry counts, whatever its role
AnyRole(staff) == TRUE

\* `if staff.get('role_type') == 'author'`
IsAuthor(staff) == staff.role_type = "author"

\* a faulty variant: the original name is taken for the English one
NameAsEnglish(staff) == [en |-> staff.name, romaji |-> staff.romaji, ja |-> staff.name]

\* romaji serves as English, name is the Japanese name
AuthorOptions(staff) == [en |-> staff.romaji, romaji |-> staff.romaji, ja |-> staff.name]

RECURSIVE AuthorsOfStaff(_, _, _)
\* for staff in edition.get('staff', [])
AuthorsOfStaff(order_str, staffs, authors) ==
    IF Len(staffs) = 0 THEN authors
    ELSE LET staff == Head(staffs)
             author_name == select_by_language(order_str, AuthorOptions(staff), LangTags)
         IN  AuthorsOfStaff(order_str, Tail(staffs),
                            IF IsAuthor(staff) /\ Truthy(author_name)
                                  /\ ~InSeq(author_name, authors)
                            THEN Append(authors, author_name) ELSE authors)

RECURSIVE AuthorsOfEditions(_, _, _)
\* for edition in editions
AuthorsOfEditions(order_str, editions, authors) ==
    IF Len(editions) = 0 THEN authors
    ELSE AuthorsOfEditions(order_str, Tail(editions),
                           AuthorsOfStaff(order_str, Head(editions), authors))

\* [_('Unknown')]
UnknownAuthors == << <<"Unknown">> >>

\* _extract_authors(book_data): an edition is its staff list
extract_authors(order_str, editions) ==
    LET authors == AuthorsOfEditions(order_str, editions, <<>>)
    IN  IF Len(authors) > 0 THEN authors ELSE UnknownAuthors

\* a faulty variant: tags of every type are kept
TagAnyType(tag) == TRUE

\* `if ttype in ('genre', 'tag')`
TagKept(tag) == tag.ttype \in {"genre", "tag"}

RECURSIVE TagsOf(_, _)
\* for tag in series_data.get('tags', [])
TagsOf(entries, tags) ==
    IF Len(entries) = 0 THEN tags
    ELSE LET tag == Head(entries)
         IN  TagsOf(Tail(entries),
                    IF TagKept(tag) /\ Truthy(tag.name) /\ ~InSeq(tag.name, tags)
                    THEN Append(tags, tag.name) ELSE tags)

\* book_data.get('series') when the book has none
NoSeries ==
    [present |-> FALSE, romaji |-> None, title |-> None, olang |-> "ja", titles |-> <<>>,
     books |-> <<>>, tags |-> <<>>]

\* _extract_tags(series_data)
extract_tags(series_data) ==
    IF ~series_data.present THEN <<>> ELSE TagsOf(series_data.tags, <<>>)

\* characters of the model whose ord() is 128 or more
NonAsciiChars == {"U+30AA", "U+30D0", "U+30AB", "U+00E9", "U+D55C"}
\* a faulty variant: every text passes for ASCII
EveryTextAscii(text) == TRUE

\* all(ord(c) < 128 for c in main_title.replace(...)): the characters
\* replaced are ASCII themselves
AsciiLooking(text) == \A i \in 1..Len(text) : text[i] \notin NonAsciiChars

RECURSIVE SeriesTitleSlots(_, _)
\* for t in series_data.get('titles', []): the en and ja slots
SeriesTitleSlots(titles, options) ==
    IF Len(titles) = 0 THEN options
    ELSE LET t == Head(titles)
         IN  SeriesTitleSlots(Tail(titles),
                 IF t.lang = "en" /\ Truthy(t.title) THEN [options EXCEPT !.en = t.title]
                 ELSE IF t.lang = "ja" /\ Truthy(t.title) THEN [options EXCEPT !.ja = t.title]
                 ELSE options)

\* _get_series_name(series_data)
get_series_name(order_str, series_data) ==
    IF ~series_data.present THEN None
    ELSE LET main_title == series_data.title
             olang == series_data.olang
             o1 == SeriesTitleSlots(series_data.titles,
                                    [en |-> None, romaji |-> series_data.romaji, ja |-> None])
             o2 == IF olang = "en" /\ ~Truthy(o1.en) THEN [o1 EXCEPT !.en = main_title]
                   ELSE IF olang = "ja" /\ ~Truthy(o1.ja) THEN [o1 EXCEPT !.ja = main_title]
                   ELSE o1
             o3 == IF Truthy(main_title) /\ ~Truthy(o2.en) /\ AsciiLooking(main_title)
                   THEN [o2 EXCEPT !.en = main_title] ELSE o2
             selected == select_by_language(order_str, o3, LangTags)
         IN  IF Truthy(selected) THEN selected ELSE main_title

\* no entry of series['books'] has the book's id: series_index stays None
NoIndex == [present |-> FALSE, value |-> 0]

\* a faulty variant: the position is taken although the entry has a sort_order
IndexByPosition(books, book_id, idx) ==
    IF \E k \in 1..Len(books) : books[k].id = book_id
    THEN [present |-> TRUE,
          value |-> idx - 1 + CHOOSE k \in 1..Len(books) :
                                 /\ books[k].id = book_id
                                 /\ \A j \in 1..(k - 1) : books[j].id # book_id]
    ELSE NoIndex

RECURSIVE FindSeriesIndex(_, _, _)
\* for idx, book in enumerate(books, start=1): sort_order, else the position
FindSeriesIndex(books, book_id, idx) ==
    IF Len(books) = 0 THEN NoIndex
    ELSE IF Head(books).id = book_id
         THEN IF Head(books).has_sort_order
              THEN [present |-> TRUE, value |-> Head(books).sort_order]
              ELSE [present |-> TRUE, value |-> idx]
    ELSE FindSeriesIndex(Tail(books), book_id, idx + 1)

\* _get_series_info(book_data): (series_name, series_index)
get_series_info(order_str, book_id, series) ==
    IF ~series.present THEN [series_name |-> None, series_index |-> NoIndex]
    ELSE [series_name |-> get_series_name(order_str, series),
          series_index |-> FindSeriesIndex(series.books, book_id, 1)]

\* what _book_to_metadata puts on the Metadata object: mi.series when the
\* name is truthy, and then mi.series_index = float(series_index) when the
\* index is not None (float keeps the number's value)
MetadataSeries(order_str, book_id, series) ==
    LET info == get_series_info(order_str, book_id, series)
    IN  IF Truthy(info.series_name)
        THEN [series |-> info.series_name, series_index |-> info.series_index]
        ELSE [series |-> None, series_index |-> NoIndex]

RECURSIVE IntToStr(_)
\* str(date_int) of a positive integer: its decimal digits
IntToStr(n) == IF n < 10 THEN <<n>> ELSE Append(IntToStr(n \div 10), n % 10)

RECURSIVE DigitsToInt(_)
\* the number strptime reads from a field of digits
DigitsToInt(d) ==
    IF Len(d) = 0 THEN 0 ELSE 10 * DigitsToInt(SubSeq(d, 1, Len(d) - 1)) + d[Len(d)]

IsLeap(year) == (year % 4 = 0 /\ year % 100 # 0) \/ year % 400 = 0
DaysInMonth(year, month) ==
    IF month = 2 THEN (IF IsLeap(year) THEN 29 ELSE 28)
    ELSE IF month \in {4, 6, 9, 11} THEN 30 ELSE 31

\* no date: Python's None
NoDate == [present |-> FALSE, year |-> 0, month |-> 0, day |-> 0]

\* parse_date (tests/mock_calibre.py) on f'{year}-{month}-{day}': strptime
\* with '%Y-%m-%d' gives the date when it exists; the other formats do not
\* match a string of this layout, and None is returned
calibre_parse_date(year, month, day) ==
    IF year >= 1 /\ month \in 1..12 /\ day \in 1..DaysInMonth(year, month)
    THEN [present |-> TRUE, year |-> year, month |-> month, day |-> day]
    ELSE NoDate

\* `if not date_int or date_int <= 0` stands before the try block: for a
\* non-empty string the comparison with 0 raises TypeError
ParseDateRaises(date_int) == date_int.kind = "str"

\* _parse_date(date_int) when it returns
parse_date(date_int) ==
    IF date_int.kind = "absent" \/ date_int.value <= 0 THEN NoDate
    ELSE LET date_str == IntToStr(date_int.value)
         IN  IF Len(date_str) = 8
             THEN calibre_parse_date(DigitsToInt(SubSeq(date_str, 1, 4)),
                                     DigitsToInt(SubSeq(date_str, 5, 6)),
                                     DigitsToInt(SubSeq(date_str, 7, 8)))
             ELSE NoDate

\* Python's `a or b` on optional texts
PyOr(a, b) == IF Truthy(a) THEN a ELSE b

RECURSIVE BookTitleSlots(_, _)
\* for t in titles_list: the en and ja slots, and romaji while it is empty
BookTitleSlots(titles, options) ==
    IF Len(titles) = 0 THEN options
    ELSE LET t == Head(titles)
             o1 == IF t.lang = "en" /\ Truthy(t.title) THEN [options EXCEPT !.en = t.title]
                   ELSE IF t.lang = "ja" /\ Truthy(t.title)
                        THEN [options EXCEPT !.ja = t.title]
                   ELSE options
             o2 == IF Truthy(t.romaji) /\ ~Truthy(o1.romaji)
                   THEN [o1 EXCEPT !.romaji = t.romaji] ELSE o1
         IN  BookTitleSlots(Tail(titles), o2)

\* the options map of _get_preferred_title when it is handed to
\* _select_by_language
TitleOptions(book) ==
    LET main_title == book.title
        main_lang == book.lang
        o1 == BookTitleSlots(book.titles,
                             [en |-> None, romaji |-> PyOr(book.romaji, book.romaji_orig),
                              ja |-> book.title_orig])
        o2 == IF main_lang = "en" /\ ~Truthy(o1.en) THEN [o1 EXCEPT !.en = main_title]
              ELSE IF main_lang = "ja" /\ ~Truthy(o1.ja) THEN [o1 EXCEPT !.ja = main_title]
              ELSE o1
    IN  IF Truthy(main_title) /\ ~Truthy(o2.en) /\ AsciiLooking(main_title)
        THEN [o2 EXCEPT !.en = main_title] ELSE o2

\* _get_preferred_title(book_data): (title, language code)
get_preferred_title(order_str, book) ==
    LET options == TitleOptions(book)
        title == select_by_language(order_str, options, LangTags)
        selected_lang == IF title = options.en THEN "en"
                         ELSE IF title = options.ja THEN "ja"
                         ELSE book.lang
    IN  [title |-> PyOr(title, book.title), lang |-> selected_lang]

\* a faulty variant: an unknown preference gives no description
NoDescriptionByDefault(desc_en, desc_ja) == None

\* the return of _get_description for a preference other than en, ja, both
DescriptionByDefault(desc_en, desc_ja) == PyOr(desc_en, desc_ja)

\* '\n\n---\n\n'
Divider == <<"\n\n---\n\n">>

\* _get_description(book_data) under the description_language preference
get_description(pref, desc_en, desc_ja) ==
    IF pref = "en" THEN PyOr(desc_en, desc_ja)
    ELSE IF pref = "ja" THEN PyOr(desc_ja, desc_en)
    ELSE IF pref = "both"
    THEN LET p1 == IF Truthy(desc_en) THEN <<desc_en>> ELSE <<>>
             p2 == IF Truthy(desc_ja) THEN <<Divider \o desc_ja>> ELSE <<>>
         IN  IF Len(p1 \o p2) > 0 THEN Join(p1 \o p2, <<>>) ELSE None
    ELSE DescriptionByDefault(desc_en, desc_ja)

\* book_data.get('c_release_date') of the catalog's records: the integer
\* they carry when the field is an integer
ReleaseDate(book) == [kind |-> book.c_release_date, value |-> 20240115]

\* the Metadata object _book_to_metadata returns, field by field
book_to_metadata(prefs, book, rank) ==
    LET preferred == get_preferred_title(prefs.language_order, book)
        isbn == extract_isbn(book.releases)
        description == get_description(prefs.description_language, book.description,
                                       book.description_ja)
        series == MetadataSeries(prefs.language_order, book.id, book.series)
    IN  [title |-> preferred.title,
         authors |-> extract_authors(prefs.language_order, book.editions),
         identifiers |-> [ranobedb |-> Str(book.id)],
         isbn |-> IF Truthy(isbn) THEN isbn ELSE None,
         comments |-> IF Truthy(description) THEN description ELSE None,
         publisher |-> IF Len(book.publishers) > 0 THEN book.publishers[1] ELSE None,
         pubdate |-> parse_date(ReleaseDate(book)),
         language |-> preferred.lang,
         series |-> series.series,
         series_index |-> series.series_index,
         tags |-> extract_tags(book.series),
         source_relevance |-> rank]

(***************************************************************************)
(* The arguments the helpers are called with.                              *)
(***************************************************************************)
\* values of the max_results preference
MaxResultsPrefs == (0 - PrefSpan)..(25 + PrefSpan)

\* comma-separated codes a user may type into language_order, each with the
\* tag it stands for ("none": not a language code)
RawCodes ==
    { [text |-> <<"e", "n">>, tag |-> "en"],
      [text |-> <<" ", "E", "N", " ">>, tag |-> "en"],
      [text |-> <<"E", "n", "g", "l", "i", "s", "h">>, tag |-> "en"],
      [text |-> <<"J", "A">>, tag |-> "ja"],
      [text |-> <<" ", "j", "p">>, tag |-> "ja"],
      [text |-> <<"j", "a", "p", "a", "n", "e", "s", "e">>, tag |-> "ja"],
      [text |-> <<"r", "o", "m", "a", "j", "i", " ">>, tag |-> "romaji"],
      [text |-> <<"f", "r">>, tag |-> "none"],
      [text |-> <<"e", " ", "n">>, tag |-> "none"],
      [text |-> <<>>, tag |-> "none"] }

RECURSIVE JoinCodes(_)
\* the preference string made of the codes
JoinCodes(codes) ==
    IF Len(codes) = 1 THEN codes[1].text
    ELSE codes[1].text \o <<",">> \o JoinCodes(Tail(codes))

CodeLists == SeqsUpTo(RawCodes, MaxTokens) \ {<<>>}

\* the slots of an options map and the texts they may hold
SlotText == [en |-> <<"Overlord">>, romaji |-> <<"Oobaaroodo">>, ja |-> <<"U+30AA", "U+30D0">>]
OptionMaps == {o \in [LangSet -> {None, Empty} \cup {SlotText[k] : k \in LangSet}] :
                  \A k \in LangSet : o[k] \in {None, Empty, SlotText[k]}}
IterOrders == {p \in [1..3 -> LangSet] : \A i, j \in 1..3 : i # j => p[i] # p[j]}

\* staff entries of an edition
StaffEntries ==
    { [role_type |-> "author", romaji |-> <<"Maruyama">>, name |-> <<"Maruyama-ja">>],
      [role_type |-> "author", romaji |-> <<"Maruyama">>, name |-> None],
      [role_type |-> "author", romaji |-> None, name |-> <<"Aneko-ja">>],
      [role_type |-> "author", romaji |-> None, name |-> Empty],
      [role_type |-> "artist", romaji |-> <<"so-bin">>, name |-> <<"so-bin-ja">>] }
EditionLists == SeqsUpTo(SeqsUpTo(StaffEntries, MaxStaff), MaxEditions)
\* the language_order strings the author and series helpers are run with
OrderPrefs == {<<>>, <<"j", "a">>}

\* tag entries of a series
TagEntries ==
    { [ttype |-> "genre", name |-> <<"Fantasy">>],
      [ttype |-> "tag", name |-> <<"Isekai">>],
      [ttype |-> "tag", name |-> <<"Fantasy">>],
      [ttype |-> "demographic", name |-> <<"Shounen">>],
      [ttype |-> "content", name |-> <<"Violence">>],
      [ttype |-> "genre", name |-> None] }
TagSeries ==
    {NoSeries} \cup {[NoSeries EXCEPT !.present = TRUE, !.tags = tags] :
                        tags \in SeqsUpTo(TagEntries, MaxTags)}

\* entries of series['books']: an id, and a sort_order or none
SortOrders == {-1, 0, 1, 3}
MemberEntries ==
    {[id |-> i, has_sort_order |-> FALSE, sort_order |-> 0] : i \in BookIds}
    \cup {[id |-> i, has_sort_order |-> TRUE, sort_order |-> s] : i \in BookIds, s \in SortOrders}
\* names and titles a series comes with
SeriesHeads ==
    { [NoSeries EXCEPT !.present = TRUE],
      [NoSeries EXCEPT !.present = TRUE, !.romaji = <<"O", "o", "b", "a">>,
                       !.title = <<"U+30AA", "U+30D0">>],
      [NoSeries EXCEPT !.present = TRUE, !.title = <<"O", "v", "e", "r">>, !.olang = "en",
                       !.titles = << [lang |-> "en", title |-> <<"O", "v", "e", "r", ":">>] >>],
      [NoSeries EXCEPT !.present = TRUE, !.title = <<"O", "v", "e", "r">>,
                       !.titles = << [lang |-> "ja", title |-> <<"U+30AA">>] >>] }
MemberSeries ==
    {NoSeries} \cup {[head EXCEPT !.books = books] :
                        head \in SeriesHeads, books \in SeqsUpTo(MemberEntries, MaxMembers)}

\* values of c_release_date, each with the date it stands for (<<>>: none):
\* absent, integers, and (malformed) a non-empty string
DateValues ==
    { [kind |-> "absent", value |-> 0, date |-> <<>>],
      [kind |-> "int", value |-> 0, date |-> <<>>],
      [kind |-> "int", value |-> 0 - 5, date |-> <<>>],
      [kind |-> "int", value |-> 2024011, date |-> <<>>],
      [kind |-> "int", value |-> 20240115, date |-> <<2024, 1, 15>>],
      [kind |-> "int", value |-> 20240229, date |-> <<2024, 2, 29>>],
      [kind |-> "int", value |-> 20230229, date |-> <<>>],
      [kind |-> "int", value |-> 19000229, date |-> <<>>],
      [kind |-> "int", value |-> 20000229, date |-> <<2000, 2, 29>>],
      [kind |-> "int", value |-> 20241301, date |-> <<>>],
      [kind |-> "int", value |-> 20240100, date |-> <<>>],
      [kind |-> "int", value |-> 20240431, date |-> <<>>],
      [kind |-> "int", value |-> 20241231, date |-> <<2024, 12, 31>>],
      [kind |-> "int", value |-> 202401150, date |-> <<>>],
      [kind |-> "str", value |-> 20240115, date |-> <<>>] }

\* isbn13 values of a release, each with the ISBN it stands for
Isbn13Other == <<"9", "7", "8", "0", "0", "0", "0", "0", "0", "0", "0", "0", "2">>
ReleaseIsbns ==
    { [isbn13 |-> None, valid |-> None],
      [isbn13 |-> Empty, valid |-> None],
      [isbn13 |-> IsbnBad, valid |-> None],
      [isbn13 |-> <<"9", "7", "8", "X">> \o SubSeq(Isbn13, 5, 13), valid |-> None],
      [isbn13 |-> Isbn13Hyphen, valid |-> Isbn13],
      [isbn13 |-> Isbn13, valid |-> Isbn13],
      [isbn13 |-> Isbn13Other, valid |-> Isbn13Other] }
ReleaseIsbnLists == SeqsUpTo(ReleaseIsbns, MaxReleases)

\* entries of a book's titles list
TitleEntries ==
    { [lang |-> "en", title |-> <<"A">>, romaji |-> None],
      [lang |-> "en", title |-> <<"B">>, romaji |-> None],
      [lang |-> "ja", title |-> <<"U+30AA">>, romaji |-> <<"o">>],
      [lang |-> "ja", title |-> <<"U+30D0">>, romaji |-> None],
      [lang |-> "fr", title |-> <<"X">>, romaji |-> <<"r">>],
      [lang |-> "en", title |-> None, romaji |-> None] }
\* a book's title and lang
PrimaryTitles ==
    { [title |-> None, lang |-> "ja"],
      [title |-> <<"M">>, lang |-> "ja"],
      [title |-> <<"U+30AA", "U+30D0">>, lang |-> "ja"],
      [title |-> <<"C", "a", "f", "U+00E9">>, lang |-> "en"],
      [title |-> <<"M", ":", " ", "2">>, lang |-> "en"],
      [title |-> <<"U+D55C">>, lang |-> "ko"],
      [title |-> <<"M">>, lang |-> "ko"] }
\* a book's romaji, romaji_orig and title_orig
RomanizedFields ==
    { [romaji |-> None, romaji_orig |-> None, title_orig |-> None],
      [romaji |-> <<"O", "o">>, romaji_orig |-> None, title_orig |-> None],
      [romaji |-> None, romaji_orig |-> <<"o", "o">>, title_orig |-> <<"U+30AB">>],
      [romaji |-> Empty, romaji_orig |-> <<"o", "o">>, title_orig |-> None] }
TitledBooks ==
    {[title |-> p.title, lang |-> p.lang, romaji |-> r.romaji,
      romaji_orig |-> r.romaji_orig, title_orig |-> r.title_orig, titles |-> titles] :
        p \in PrimaryTitles, r \in RomanizedFields,
        titles \in SeqsUpTo(TitleEntries, MaxTitles)}
\* the language_order strings the title helper is run with
TitlePrefs == OrderPrefs \cup {<<"r", "o", "m", "a", "j", "i">>}

\* staff entries of every combination of romaji and name
NamedStaff ==
    {[role_type |-> "author", romaji |-> r, name |-> n] :
        r \in {None, Empty, <<"Maruyama">>}, n \in {None, Empty, <<"Maruyama-ja">>}}

\* values of the description_language preference, and the two texts
DescriptionPrefs == {"en", "ja", "both", "xx"}
DescriptionsEn == {None, Empty, <<"E">>}
DescriptionsJa == {None, Empty, <<"J">>}

(***************************************************************************)
(* One call of a helper: its arguments are chosen, it returns.             *)
(***************************************************************************)
restVars == <<clockVars, cacheVars, pc, callVars, abort, req, sleep_left, loopVars, queueVars,
              cached_url, rateHist, reqHist, pollHist>>

\* the clamp of _search_books
ApplySearchLimit ==
    /\ fn = "none"
    /\ \E max_results \in MaxResultsPrefs :
          /\ fn' = "search_limit"
          /\ fn_in' = [max_results |-> max_results]
          /\ fn_out' = SearchLimit(max_results)
    /\ UNCHANGED restVars

ApplyParseLanguageOrder ==
    /\ fn = "none"
    /\ \E codes \in CodeLists :
          /\ fn' = "parse_language_order"
          /\ fn_in' = [order_str |-> JoinCodes(codes), codes |-> codes]
          /\ fn_out' = parse_language_order(JoinCodes(codes))
    /\ UNCHANGED restVars

ApplySelectByLanguage ==
    /\ fn = "none"
    /\ \E codes \in CodeLists, options \in OptionMaps, iter \in IterOrders :
          /\ fn' = "select_by_language"
          /\ fn_in' = [order_str |-> JoinCodes(codes), options |-> options, iter |-> iter]
          /\ fn_out' = select_by_language(JoinCodes(codes), options, iter)
    /\ UNCHANGED restVars

ApplyExtractAuthors ==
    /\ fn = "none"
    /\ \E order_str \in OrderPrefs, editions \in EditionLists :
          /\ fn' = "extract_authors"
          /\ fn_in' = [order_str |-> order_str, editions |-> editions]
          /\ fn_out' = extract_authors(order_str, editions)
    /\ UNCHANGED restVars

ApplyExtractTags ==
    /\ fn = "none"
    /\ \E series \in TagSeries :
          /\ fn' = "extract_tags"
          /\ fn_in' = [series |-> series]
          /\ fn_out' = extract_tags(series)
    /\ UNCHANGED restVars

\* _get_series_info and the lines of _book_to_metadata that use it
ApplySeriesInfo ==
    /\ fn = "none"
    /\ \E order_str \in OrderPrefs, book_id \in BookIds, series \in MemberSeries :
          /\ fn' = "series_info"
          /\ fn_in' = [order_str |-> order_str, id |-> book_id, series |-> series]
          /\ fn_out' = MetadataSeries(order_str, book_id, series)
    /\ UNCHANGED restVars

\* _get_series_info alone
ApplyGetSeriesInfo ==
    /\ fn = "none"
    /\ \E order_str \in OrderPrefs, book_id \in BookIds, series \in MemberSeries :
          /\ fn' = "get_series_info"
          /\ fn_in' = [order_str |-> order_str, id |-> book_id, series |-> series]
          /\ fn_out' = get_series_info(order_str, book_id, series)
    /\ UNCHANGED restVars

ApplyParseDate ==
    /\ fn = "none"
    /\ \E date_int \in DateValues :
          /\ fn' = "parse_date"
          /\ fn_in' = [date_int |-> date_int]
          /\ fn_out' = [raised |-> ParseDateRaises(date_int),
                        date |-> IF ParseDateRaises(date_int) THEN NoDate
                                 ELSE parse_date(date_int)]
    /\ UNCHANGED restVars

ApplyExtractIsbn ==
    /\ fn = "none"
    /\ \E releases \in ReleaseIsbnLists :
          /\ fn' = "extract_isbn"
          /\ fn_in' = [releases |-> releases]
          /\ fn_out' = extract_isbn([i \in 1..Len(releases) |-> releases[i].isbn13])
    /\ UNCHANGED restVars

ApplyGetPreferredTitle ==
    /\ fn = "none"
    /\ \E order_str \in TitlePrefs, book \in TitledBooks :
          /\ fn' = "get_preferred_title"
          /\ fn_in' = [order_str |-> order_str, book |-> book]
          /\ fn_out' = [title |-> get_preferred_title(order_str, book).title,
                        lang |-> get_preferred_title(order_str, book).lang,
                        options |-> TitleOptions(book)]
    /\ UNCHANGED restVars

\* the name _extract_authors resolves for one staff entry
ApplyResolveAuthor ==
    /\ fn = "none"
    /\ \E codes \in CodeLists, staff \in NamedStaff :
          /\ fn' = "resolve_author"
          /\ fn_in' = [order_str |-> JoinCodes(codes), codes |-> codes, staff |-> staff]
          /\ fn_out' = select_by_language(JoinCodes(codes), AuthorOptions(staff), LangTags)
    /\ UNCHANGED restVars

ApplyGetDescription ==
    /\ fn = "none"
    /\ \E pref \in DescriptionPrefs, desc_en \in DescriptionsEn, desc_ja \in DescriptionsJa :
          /\ fn' = "get_description"
          /\ fn_in' = [pref |-> pref, description |-> desc_en, description_ja |-> desc_ja]
          /\ fn_out' = get_description(pref, desc_en, desc_ja)
    /\ UNCHANGED restVars

\* titles, authors lists and isbn identifiers identify is called with
QueryTitles == {None, Empty, <<"Overlord">>}
QueryAuthors ==
    { <<>>, << <<"unknown">> >>, << <<"Unknown">> >>, << <<"UNKNOWN">> >>, << Empty >>,
      << <<"Maruyama">>, <<"so-bin">> >>, << <<"Unknown">>, <<"Maruyama">> >> }
QueryIsbns == {None, Empty, Isbn13, Isbn13Hyphen, IsbnBad}

\* identify from `isbn = identifiers.get('isbn')` to the query it searches with
ApplySearchQuery ==
    /\ fn = "none"
    /\ \E title \in QueryTitles, authors \in QueryAuthors, id_isbn \in QueryIsbns :
          LET isbn == ValidatedIsbn(id_isbn)
              query == create_search_query(title, authors)
          IN  /\ fn' = "search_query"
              /\ fn_in' = [title |-> title, authors |-> authors, isbn |-> id_isbn]
              /\ fn_out' = [searched |-> ~InsufficientMetadata(query, isbn),
                            query |-> FinalQuery(query, isbn)]
    /\ UNCHANGED restVars

\* the params of _search_books under a language_order preference
ApplySearchParams ==
    /\ fn = "none"
    /\ \E codes \in CodeLists, max_results \in HostMaxResults :
          /\ fn' = "search_params"
          /\ fn_in' = [order_str |-> JoinCodes(codes), codes |-> codes,
                       max_results |-> max_results]
          /\ fn_out' = [params |-> SearchParams(<<"Overlord">>, max_results, JoinCodes(codes)),
                        lang_order |-> parse_language_order(JoinCodes(codes))]
    /\ UNCHANGED restVars

\* the helper has returned to its caller
HelperReturn ==
    /\ fn # "none"
    /\ fn' = "none"
    /\ fn_in' = <<>>
    /\ fn_out' = <<>>
    /\ UNCHANGED restVars

NextFn ==
    \/ ApplySearchLimit
    \/ ApplyParseLanguageOrder
    \/ ApplySelectByLanguage
    \/ ApplyExtractAuthors
    \/ ApplyExtractTags
    \/ ApplySeriesInfo
    \/ ApplyGetSeriesInfo
    \/ ApplyParseDate
    \/ ApplyExtractIsbn
    \/ ApplyGetPreferredTitle
    \/ ApplyResolveAuthor
    \/ ApplyGetDescription
    \/ ApplySearchQuery
    \/ ApplySearchParams
    \/ HelperReturn

SpecFn == Init /\ [][NextFn]_vars

(***************************************************************************)
(* Normalization on its own: direct lookups one after the other, each with *)
(* a queue of its own, on whatever records the catalog answers with.       *)
(***************************************************************************)
\* what a record has besides the fields of Records
BookBundles ==
    { [title |-> <<"U+30AA", "U+30D0">>, lang |-> "ja", romaji |-> <<"O", "o">>,
       romaji_orig |-> None, title_orig |-> None,
       titles |-> << [lang |-> "en", title |-> <<"A">>, romaji |-> None] >>,
       editions |-> << << [role_type |-> "author", romaji |-> <<"Maruyama">>,
                           name |-> <<"Maruyama-ja">>] >> >>,
       description |-> <<"E">>, description_ja |-> <<"J">>,
       publishers |-> << <<"Kadokawa">> >>,
       series |-> [NoSeries EXCEPT !.present = TRUE, !.romaji = <<"O", "o", "b", "a">>,
                      !.books = << [id |-> 1, has_sort_order |-> FALSE, sort_order |-> 0],
                                   [id |-> 2, has_sort_order |-> TRUE, sort_order |-> 3] >>,
                      !.tags = << [ttype |-> "genre", name |-> <<"Fantasy">>] >>]],
      [title |-> <<"M">>, lang |-> "en", romaji |-> None,
       romaji_orig |-> None, title_orig |-> None, titles |-> <<>>,
       editions |-> <<>>, description |-> None, description_ja |-> None,
       publishers |-> <<>>, series |-> NoSeries] }

NormRecords(i) ==
    {[id |-> r.id, filename |-> r.filename, releases |-> r.releases,
      c_release_date |-> r.c_release_date,
      title |-> b.title, lang |-> b.lang, romaji |-> b.romaji,
      romaji_orig |-> b.romaji_orig, title_orig |-> b.title_orig, titles |-> b.titles,
      editions |-> b.editions, description |-> b.description,
      description_ja |-> b.description_ja, publishers |-> b.publishers,
      series |-> b.series] : r \in Records(i), b \in BookBundles}

\* the preferences the plugin is run with
NormPrefs ==
    { [language_order |-> <<>>, description_language |-> "en"],
      [language_order |-> <<"j", "a">>, description_language |-> "both"] }

\* _book_to_metadata(book_data, 0, log) and result_queue.put(mi) of a direct
\* lookup; the call is marked when it repeats the one before
NormalizeRecord ==
    /\ Len(result_queue[Host]) = 0
    /\ \E prefs \in NormPrefs, i \in BookIds, rank \in 0..(MaxCandidates - 1) :
          \E book_data \in NormRecords(i) :
             LET b == [vtype |-> "dict", rec |-> book_data]
                 call == [prefs |-> prefs, book_data |-> book_data, relevance |-> rank]
             IN  /\ Normalize(Host, b, rank)
                 /\ fn' = IF fn # "none" /\ fn_in = call
                          THEN "book_to_metadata_repeated" ELSE "book_to_metadata"
                 /\ fn_in' = call
                 /\ fn_out' = IF book_to_metadata_raises(b)
                              THEN [raised |-> TRUE, mi |-> <<>>]
                              ELSE [raised |-> FALSE,
                                    mi |-> book_to_metadata(prefs, book_data, rank)]
    /\ UNCHANGED <<clockVars, pc, callVars, abort, req, sleep_left, loopVars, cover_queue,
                   cached_url, rateHist, reqHist, observed>>

\* the host takes the result off the queue of the finished call
TakeResult ==
    /\ Len(result_queue[Host]) > 0
    /\ result_queue' = [result_queue EXCEPT ![Host] = <<>>]
    /\ UNCHANGED <<clockVars, cacheVars, pc, callVars, abort, req, sleep_left, loopVars,
                   cover_queue, cached_url, rateHist, reqHist, pollHist, fnVars>>

NextNorm ==
    \/ NormalizeRecord
    \/ TakeResult

SpecNorm == Init /\ [][NextNorm]_vars

(***************************************************************************)
(* Properties.                                                             *)
(***************************************************************************)
IdentifyKinds == {"direct", "search", "detail"}

\* the thread is inside identify: at one of its steps or in one of its requests
InIdentify(t) ==
    \/ pc[t] \in {"identify", "query", "loop"}
    \/ /\ pc[t] \in {"rate_limit", "sleep", "stamp", "open", "wait"}
       /\ req[t].kind \in IdentifyKinds

KindsOf(t) == {reqLog[t][i].kind : i \in 1..Len(reqLog[t])}

\* what the direct lookup of this call got, "none" while it has no answer
DirectOutcome(t) ==
    IF Len(outcomes[t]) >= 1 /\ reqLog[t][1].kind = "direct" THEN outcomes[t][1] ELSE "none"

Position(seq, x) == CHOOSE p \in 1..Len(seq) : seq[p] = x

\* the ids of the candidates that have one, in the order of the response
RECURSIVE WithIds(_)
WithIds(cands) ==
    IF Len(cands) = 0 THEN <<>>
    ELSE IF Head(cands) = NoId THEN WithIds(Tail(cands))
    ELSE <<Str(Head(cands))>> \o WithIds(Tail(cands))

\* the candidate ids identify has asked the details of, in the order asked
DetailArgs(t) ==
    LET IsDetail(r) == r.kind = "detail"
        ds == SelectSeq(reqLog[t], IsDetail)
    IN  [i \in 1..Len(ds) |-> ds[i].arg]

IsPrefix(s, w) == Len(s) <= Len(w) /\ SubSeq(w, 1, Len(s)) = s

\* one result for every candidate whose details came back as a record, ranked
\* by the candidate's zero-based index in the search response
SearchPathResults(t) ==
    LET Hit(i) == reqLog[t][i].kind = "detail" /\ outcomes[t][i] = "record"
        hits == SelectSeq([i \in 1..Len(outcomes[t]) |-> i], Hit)
    IN  [k \in 1..Len(hits) |->
            [id |-> reqLog[t][hits[k]].arg,
             source_relevance |->
                 Position(search_results[t], BookOf(reqLog[t][hits[k]].arg)) - 1]]

\* no title, no usable first author, no ISBN that check_isbn accepts
NoQueryMaterial(i) ==
    ~Truthy(create_search_query(i.title, i.authors)) /\ ~Truthy(check_isbn(i.isbn))

\* C1: grants of _rate_limit are serialized over all threads: two consecutive
\* grants are at least RATE_LIMIT_DELAY apart, and no grant is made on a
\* reading of the last-grant timestamp that another grant has used.
RateLimitSerialized == lastGap >= RATE_LIMIT_DELAY /\ ~staleGrant

\* a thread sleeps inside _rate_limit holding the lock while another, which
\* has been granted before, waits for it
RateLimitContended ==
    \E t, u \in Threads :
        /\ t # u
        /\ rate_lock = t /\ pc[t] = "sleep"
        /\ pc[u] = "rate_limit"
        /\ nGrants[t] >= 1 /\ nGrants[u] >= 1

\* C2: every request (search, detail, cover image) is issued on a grant of
\* its own: at every point the requests a call has issued are at most its
\* grants, and a grant not yet used is the one of the request being opened.
RequestsAreGranted ==
    \A t \in Threads :
        /\ Len(reqLog[t]) <= nGrants[t]
        /\ nGrants[t] = Len(reqLog[t]) + (IF pc[t] = "open" THEN 1 ELSE 0)

\* download_cover is over after a search, a detail fetch and the image fetch
AllRequestKindsGranted ==
    /\ pc[Host] = "done"
    /\ {"search", "detail", "cover"} \subseteq KindsOf(Host)
    /\ nGrants[Host] = Len(reqLog[Host])

\* C3: when the direct lookup returns a record, identify emits exactly one
\* result, of rank 0, and returns without a search or a further detail fetch;
\* results come from the direct lookup or from the search, never from both.
DirectHitIsFinal ==
    \A t \in Threads :
        /\ DirectOutcome(t) = "record" =>
              /\ result_queue[t] = <<[id |-> inp[t].ranobedb, source_relevance |-> 0]>>
              /\ KindsOf(t) \cap {"search", "detail"} = {}
              /\ ~InIdentify(t)
              /\ pc[t] # "raised"
        /\ "detail" \in KindsOf(t) => DirectOutcome(t) # "record"

\* identify, given an id and a title, is over after a direct lookup that
\* returned a record
DirectHitReturned ==
    /\ pc[Host] = "done" /\ op[Host] = "identify"
    /\ Truthy(inp[Host].title)
    /\ DirectOutcome(Host) = "record"
    /\ Len(result_queue[Host]) = 1

CandidatesInOrder ==
    \A t \in Threads :
        /\ IsPrefix(DetailArgs(t), WithIds(search_results[t]))
        /\ Len(DetailArgs(t)) >= Len(WithIds(SubSeq(search_results[t], 1, relevance[t])))
        /\ Len(DetailArgs(t)) <= Len(WithIds(SubSeq(search_results[t], 1, relevance[t]))) + 1
        /\ DirectOutcome(t) # "record" => result_queue[t] = SearchPathResults(t)
        /\ \A i, j \in 1..Len(result_queue[t]) :
              i < j => result_queue[t][i].source_relevance < result_queue[t][j].source_relevance
        /\ (~InIdentify(t) /\ pc[t] # "raised" /\ ~observed[t])
              => relevance[t] = Len(search_results[t])

\* the first candidate's fetch gave no record, the second candidate's result
\* was emitted with rank 1, and the call is over
SecondCandidateEmittedAlone ==
    /\ pc[Host] = "done"
    /\ Len(search_results[Host]) >= 2
    /\ search_results[Host][1] # NoId
    /\ Len(result_queue[Host]) = 1
    /\ result_queue[Host][1].source_relevance = 1

\* C6: identify starts its direct lookup, its search and each candidate's
\* fetch only at a poll that finds the abort event clear; once a poll has
\* found it set, the call has returned without raising, issues no request
\* and emits no result, and the results emitted before stay in the queue.
PollStopsIdentify ==
    [][\A t \in Threads :
          /\ (req'[t] # req[t] /\ req'[t].kind \in IdentifyKinds) => ~abort[t]
          /\ observed[t] => pc[t] \in {"done", "after_identify"}
          /\ (observed[t] /\ pc'[t] # "idle")
                => /\ result_queue'[t] = result_queue[t]
                   /\ reqLog'[t] = reqLog[t]
                   /\ req'[t] = NoReq]_vars

\* the poll before a later candidate found the event set: an earlier result
\* is in the queue and candidates are left
AbortedMidSequence ==
    /\ observed[Host]
    /\ Len(result_queue[Host]) >= 1
    /\ relevance[Host] >= 1
    /\ relevance[Host] < Len(search_results[Host])

\* C7 as claimed: no result is put on the queue once the abort event is set,
\* the result of the fetch in flight at that moment included.
NoEmitAfterSet == \A t \in Threads : emitAfterSet[t] = 0

\* C7, amended: once the abort event is set identify emits at most one more
\* result, that of the fetch whose preceding poll found the event clear; the
\* next poll ends the call, and after it nothing is emitted.
AtMostOneEmitAfterSet ==
    \A t \in Threads :
        /\ emitAfterSet[t] <= 1
        /\ emitAfterSet[t] = 1 => abort[t] /\ Len(result_queue[t]) >= 1

\* the event was set during a candidate's fetch, its result was emitted, and
\* the next poll ended the call with a candidate left
InFlightResultEmitted ==
    /\ emitAfterSet[Host] = 1
    /\ observed[Host]
    /\ pc[Host] = "done"

\* C8: when the direct lookup emitted nothing and there is no query material
\* (no title, no usable first author, no ISBN check_isbn accepts), identify
\* emits nothing, issues no search and no detail request, and returns.
InsufficientInputEmitsNothing ==
    \A t \in Threads :
        ( /\ op[t] # "none"
          /\ NoQueryMaterial(inp[t])
          /\ DirectOutcome(t) \in {"none", "failed", "notfound"} )
        => /\ result_queue[t] = <<>>
           /\ KindsOf(t) \cap {"search", "detail"} = {}
           /\ req[t].kind \notin {"search", "detail"}
           /\ pc[t] \notin {"loop", "raised"}

\* identify, given an id and an ISBN that check_isbn rejects, is over after a
\* direct lookup that found nothing
RejectedIsbnReturned ==
    /\ pc[Host] = "done" /\ op[Host] = "identify"
    /\ Truthy(inp[Host].isbn)
    /\ NoQueryMaterial(inp[Host])
    /\ ~abort[Host]
    /\ outcomes[Host] = <<"notfound">>

\* C9: a transport failure, a timeout or a body that is not JSON never
\* raises out of _make_api_request, and identify takes the None it returns
\* as no data: after a failed direct lookup it goes on to the search, after a
\* failed search it returns with no result, after a failed candidate fetch
\* it emits nothing for the candidate and moves to the next.
FailureIsNoData ==
    \A t \in Threads :
        /\ pc[t] = "raised" => outcomes[t][Len(outcomes[t])] = "malformed"
        /\ \A i \in 1..Len(outcomes[t]) :
              outcomes[t][i] = "failed" =>
                 IF reqLog[t][i].kind = "direct"
                 THEN /\ result_queue[t] = SearchPathResults(t)
                      /\ Len(reqLog[t]) >= 2 => reqLog[t][2].kind = "search"
                      /\ Len(reqLog[t]) = 1 =>
                            \/ pc[t] = "query"
                            \/ req[t].kind = "search"
                            \/ ~InIdentify(t) /\ (NoQueryMaterial(inp[t]) \/ observed[t])
                 ELSE IF reqLog[t][i].kind = "search"
                 THEN /\ ~InIdentify(t)
                      /\ result_queue[t] = <<>>
                      /\ "detail" \notin KindsOf(t)
                 ELSE /\ \A k \in 1..Len(result_queue[t]) :
                            result_queue[t][k].id # reqLog[t][i].arg
                      /\ relevance[t] >= Position(search_results[t], BookOf(reqLog[t][i].arg))

\* the direct lookup failed, the search answered, the first candidate's
\* fetch failed, the second candidate's result was emitted
FailuresSkipped ==
    /\ pc[Host] = "done"
    /\ Len(outcomes[Host]) >= 4
    /\ outcomes[Host][1] = "failed"
    /\ outcomes[Host][3] = "failed"
    /\ Len(result_queue[Host]) = 1

\* C10: whatever the service answers, identify and download_cover return
\* without raising.
NoFatalOutcome == \A t \in Threads : pc[t] # "raised"

\* C11: one identify call puts at most as many results on the queue as the
\* limit its search request carried, however many candidates the response has.
ResultsWithinLimit ==
    \A t \in Threads :
        \A i \in 1..Len(reqLog[t]) :
            reqLog[t][i].kind = "search" => Len(result_queue[t]) <= reqLog[t][i].limit

\* C16: an entry of the ISBN cache or of the cover URL cache, once written,
\* is never removed and never gets another value.
CacheWriteOnce ==
    [][/\ \A k \in DOMAIN isbn_cache :
             isbn_cache[k] # None => isbn_cache'[k] = isbn_cache[k]
       /\ \A k \in DOMAIN cover_url_cache :
             cover_url_cache[k] # None => cover_url_cache'[k] = cover_url_cache[k]]_vars

\* C17: download_cover looks the given identifier up in the cover URL cache
\* first; on a hit it goes to the image fetch and never enters identify; on a
\* miss it runs identify once and takes the cached URL of the result of
\* lowest rank that has one; with no URL it fetches no image, emits nothing
\* and returns.
CoverUrlResolution ==
    [][\A t \in Threads :
          /\ (pc[t] = "download_cover" /\ pc'[t] # "download_cover") =>
                IF Truthy(inp[t].ranobedb) /\ cover_url_cache[inp[t].ranobedb] # None
                THEN /\ pc'[t] = "cover_poll"
                     /\ cached_url'[t] = cover_url_cache[inp[t].ranobedb]
                ELSE pc'[t] = "identify"
          /\ (op[t] = "download_cover" /\ pc[t] \notin {"download_cover", "idle"}
                /\ ~InIdentify(t)) =>
                /\ pc'[t] \notin {"identify", "query", "loop"}
                /\ req'[t].kind \notin IdentifyKinds
          /\ (pc[t] = "after_identify" /\ pc'[t] # "after_identify" /\ ~abort[t]) =>
                LET withUrl == {k \in 1..Len(result_queue[t]) :
                                   cover_url_cache[result_queue[t][k].id] # None}
                IN  IF withUrl = {}
                    THEN pc'[t] = "done" /\ cached_url'[t] = None
                    ELSE /\ pc'[t] = "cover_poll"
                         /\ \E k \in withUrl :
                               /\ \A j \in withUrl :
                                     result_queue[t][k].source_relevance
                                        <= result_queue[t][j].source_relevance
                               /\ cached_url'[t] = cover_url_cache[result_queue[t][k].id]
          /\ (req'[t].kind = "cover" /\ req[t].kind # "cover") => req'[t].arg = cached_url[t]
          /\ (op[t] = "download_cover" /\ pc[t] = "done" /\ cached_url[t] = None) =>
                /\ "cover" \notin KindsOf(t)
                /\ cover_queue[t] = <<>>]_vars

\* download_cover missed the cache, identify emitted two results that both
\* have a cached URL, and the image of the first was fetched and emitted
LowestRankCoverFetched ==
    /\ pc[Host] = "done" /\ op[Host] = "download_cover"
    /\ Len(result_queue[Host]) = 2
    /\ cover_url_cache[result_queue[Host][2].id] # None
    /\ cover_queue[Host] = <<cover_url_cache[result_queue[Host][1].id]>>

\* C18: download_cover fetches at most one image and emits at most one item
\* per call; when the fetch fails or gives no bytes it emits nothing and
\* returns without raising.
OneCoverFetch ==
    \A t \in Threads :
        /\ Cardinality({i \in 1..Len(reqLog[t]) : reqLog[t][i].kind = "cover"}) <= 1
        /\ Len(cover_queue[t]) <= 1
        /\ \A i \in 1..Len(outcomes[t]) :
              reqLog[t][i].kind = "cover" =>
                 /\ pc[t] = "done"
                 /\ outcomes[t][i] # "bytes" => cover_queue[t] = <<>>
                 /\ outcomes[t][i] = "bytes" => cover_queue[t] = <<reqLog[t][i].arg>>
        /\ cover_queue[t] # <<>> => "cover" \in KindsOf(t)

\* the image fetch returned no bytes and download_cover is over with nothing
\* on its queue
EmptyCoverDropped ==
    /\ pc[Host] = "done"
    /\ Len(outcomes[Host]) >= 1
    /\ outcomes[Host][Len(outcomes[Host])] = "empty"
    /\ cover_queue[Host] = <<>>

(***************************************************************************)
(* Properties of the helpers.                                              *)
(***************************************************************************)
NoDuplicates(seq) == \A i, j \in 1..Len(seq) : i # j => seq[i] # seq[j]
Elements(seq) == {seq[i] : i \in 1..Len(seq)}
\* x comes before y in seq
Before(seq, x, y) ==
    \E i, j \in 1..Len(seq) :
       /\ i < j /\ seq[i] = x /\ seq[j] = y
       /\ \A k \in 1..(i - 1) : seq[k] # x
       /\ \A k \in 1..(j - 1) : seq[k] # y

\* C12: whatever integer the max_results preference holds, the limit sent
\* with the search is min(max(1, max_results), 25): the preference itself
\* when it lies in 1..25, 1 below that and 25 above, so always in 1..25.
LimitClamped ==
    fn = "search_limit" =>
       LET m == fn_in.max_results
       IN  /\ fn_out \in 1..25
           /\ m \in 1..25 => fn_out = m
           /\ m < 1 => fn_out = 1
           /\ m > 25 => fn_out = 25

\* a preference below 1 was raised to 1
LimitRaisedToOne == fn = "search_limit" /\ fn_in.max_results < 0 /\ fn_out = 1

\* C20: _parse_language_order returns a permutation of en, romaji, ja: the
\* tags the recognized codes stand for, each once and in the order of their
\* first occurrence, followed by the missing tags in the order en, romaji, ja.
ParsedOrderIsPermutation ==
    fn = "parse_language_order" =>
       LET codes == fn_in.codes
           named == {codes[i].tag : i \in 1..Len(codes)} \ {"none"}
           given == [i \in 1..Len(codes) |-> codes[i].tag]
       IN  /\ Len(fn_out) = 3
           /\ Elements(fn_out) = LangSet
           /\ \A a, b \in named : Before(given, a, b) => Before(fn_out, a, b)
           /\ \A a \in named, b \in LangSet \ named : Before(fn_out, a, b)
           /\ \A a, b \in LangSet \ named : Before(LangTags, a, b) => Before(fn_out, a, b)

\* two codes for Japanese were given: ja comes once, then en and romaji
RepeatedCodeParsedOnce ==
    /\ fn = "parse_language_order"
    /\ Len(fn_in.codes) = 2
    /\ fn_in.codes[1].tag = "ja" /\ fn_in.codes[2].tag = "ja"
    /\ fn_in.codes[1] # fn_in.codes[2]
    /\ fn_out = <<"ja", "en", "romaji">>

\* C19: _select_by_language returns the value of the first tag of the
\* completed order whose slot is present and not empty, and None exactly
\* when no slot is; the order in which the options map yields its slots
\* has no part in it.
SelectsFirstFilled ==
    fn = "select_by_language" =>
       LET order == parse_language_order(fn_in.order_str)
           options == fn_in.options
           filled == {k \in 1..3 : options[order[k]] # None /\ options[order[k]] # Empty}
       IN  IF filled = {} THEN fn_out = None
           ELSE \E k \in filled : /\ \A l \in filled : k <= l
                                  /\ fn_out = options[order[k]]

\* the first slot of the order is empty, the second is returned, although
\* the map yields the filled third slot first
SecondSlotSelected ==
    /\ fn = "select_by_language"
    /\ LET order == parse_language_order(fn_in.order_str)
       IN  /\ order[1] # "en"
           /\ fn_in.options[order[1]] = Empty
           /\ Truthy(fn_in.options[order[2]])
           /\ Truthy(fn_in.options[order[3]])
           /\ fn_in.iter[1] = order[3]
           /\ fn_out = fn_in.options[order[2]]

RECURSIVE Flatten(_)
\* the staff entries of all editions, in order
Flatten(editions) == IF Len(editions) = 0 THEN <<>> ELSE Head(editions) \o Flatten(Tail(editions))

\* C13: the author list is never empty; it holds the names resolved from
\* the staff entries of all editions whose role is exactly author, each
\* once and in the order first seen, and is ['Unknown'] when there is none.
AuthorsFromAuthorStaff ==
    fn = "extract_authors" =>
       LET staff == Flatten(fn_in.editions)
           resolved == [i \in 1..Len(staff) |->
                           IF staff[i].role_type = "author"
                           THEN select_by_language(fn_in.order_str,
                                   [en |-> staff[i].romaji, romaji |-> staff[i].romaji,
                                    ja |-> staff[i].name], LangTags)
                           ELSE None]
           names == Elements(resolved) \ {None, Empty}
       IN  /\ Len(fn_out) > 0
           /\ NoDuplicates(fn_out)
           /\ IF names = {} THEN fn_out = << <<"Unknown">> >>
              ELSE /\ Elements(fn_out) = names
                   /\ \A a, b \in names : Before(resolved, a, b) => Before(fn_out, a, b)

\* the same author on two editions is listed once, the artist not at all
AuthorOfTwoEditionsOnce ==
    /\ fn = "extract_authors"
    /\ Len(fn_in.editions) = 2
    /\ \E i \in 1..2 : \E k \in 1..Len(fn_in.editions[i]) :
          fn_in.editions[i][k].role_type = "artist"
    /\ \E i \in 1..2 : \E k \in 1..Len(fn_in.editions[i]) :
          fn_in.editions[i][k].role_type = "author"
    /\ fn_out = << <<"Maruyama">> >>

\* C14: the tag list holds the names of the entries whose type is exactly
\* genre or tag, each once and in the order of first appearance, and is
\* empty when the book has no series.
TagsFromGenreAndTag ==
    fn = "extract_tags" =>
       LET series == fn_in.series
           kept == [i \in 1..Len(series.tags) |->
                       IF series.tags[i].ttype = "genre" \/ series.tags[i].ttype = "tag"
                       THEN series.tags[i].name ELSE None]
           names == Elements(kept) \ {None, Empty}
       IN  /\ ~series.present => fn_out = <<>>
           /\ NoDuplicates(fn_out)
           /\ Elements(fn_out) = names
           /\ \A a, b \in names : Before(kept, a, b) => Before(fn_out, a, b)

\* a name given as genre and as tag is listed once, a demographic is not
RepeatedTagOnce ==
    /\ fn = "extract_tags"
    /\ Len(fn_in.series.tags) = 3
    /\ fn_in.series.tags[1].ttype = "demographic"
    /\ fn_in.series.tags[2].name = fn_in.series.tags[3].name
    /\ fn_in.series.tags[2].ttype # fn_in.series.tags[3].ttype
    /\ fn_out = << <<"Fantasy">> >>

\* C15: a series index put on the metadata is greater than 0, whatever the
\* member list holds, explicit sort-order numbers of any value included.
SeriesIndexPositive ==
    fn = "series_info" => (fn_out.series_index.present => fn_out.series_index.value > 0)

\* the date _parse_date returned is the one the value stands for
ParseDateAsExpected ==
    fn = "parse_date" /\ ~fn_out.raised =>
       IF fn_in.date_int.date = <<>> THEN ~fn_out.date.present
       ELSE /\ fn_out.date.present
            /\ <<fn_out.date.year, fn_out.date.month, fn_out.date.day>> = fn_in.date_int.date

\* C21: _parse_date never raises, whatever c_release_date holds: an absent,
\* zero or negative value gives no date, an 8-digit positive integer that
\* is a calendar date YYYYMMDD gives that date, every other value no date.
ParseDateNeverRaises ==
    /\ fn = "parse_date" => ~fn_out.raised
    /\ ParseDateAsExpected

\* C22: the series index comes from the first entry of the member list
\* whose id is the record's id: its sort_order when it has one, else its
\* 1-based position; with no such entry there is no index, while the
\* series name is set all the same.
SeriesIndexFromFirstMatch ==
    fn = "get_series_info" /\ fn_in.series.present =>
       LET books == fn_in.series.books
           matches == {k \in 1..Len(books) : books[k].id = fn_in.id}
       IN  /\ matches = {} => ~fn_out.series_index.present
           /\ \A k \in matches :
                 (\A j \in matches : k <= j) =>
                    /\ fn_out.series_index.present
                    /\ fn_out.series_index.value =
                          IF books[k].has_sort_order THEN books[k].sort_order ELSE k
           /\ fn_out.series_name = get_series_name(fn_in.order_str, fn_in.series)

\* the record is the second member and has no sort_order: its index is 2;
\* a named series without the record has a name and no index
SecondMemberByPosition ==
    /\ fn = "get_series_info"
    /\ Len(fn_in.series.books) = 2
    /\ fn_in.series.books[1].id # fn_in.id
    /\ fn_in.series.books[1].has_sort_order
    /\ fn_in.series.books[2].id = fn_in.id
    /\ ~fn_in.series.books[2].has_sort_order
    /\ Truthy(fn_out.series_name)
    /\ fn_out.series_index = [present |-> TRUE, value |-> 2]

\* C23: _extract_isbn goes through the releases in order and returns the
\* ISBN of the first one whose isbn13 is there and passes check_isbn;
\* releases with a null or invalid isbn13 are skipped, and the result is
\* None when no release qualifies.
FirstValidIsbn ==
    fn = "extract_isbn" =>
       LET releases == fn_in.releases
           valid == {k \in 1..Len(releases) : releases[k].valid # None}
       IN  IF valid = {} THEN fn_out = None
           ELSE \E k \in valid : /\ \A j \in valid : k <= j
                                 /\ fn_out = releases[k].valid

\* an invalid isbn13 was skipped and the hyphenated one after it returned
InvalidIsbnSkipped ==
    /\ fn = "extract_isbn"
    /\ Len(fn_in.releases) = 2
    /\ fn_in.releases[1].isbn13 = IsbnBad
    /\ fn_in.releases[2].isbn13 = Isbn13Hyphen
    /\ fn_out = Isbn13

\* no entry of the titles list gives an English title
NoEnglishAlternate(book) ==
    \A k \in 1..Len(book.titles) :
       ~(book.titles[k].lang = "en" /\ Truthy(book.titles[k].title))

\* C26: when the titles list has several entries of one language (en or
\* ja), the slot of that language holds the first of them in list order.
FirstAlternateWins ==
    fn = "get_preferred_title" =>
       \A slot \in {"en", "ja"} :
          LET titles == fn_in.book.titles
              entries == {k \in 1..Len(titles) :
                             titles[k].lang = slot /\ Truthy(titles[k].title)}
          IN  \A k \in entries :
                 (\A j \in entries : k <= j) => fn_out.options[slot] = titles[k].title

\* C27: the language reported with the title is en when the title is the
\* en slot's value, ja when it is the ja slot's value, and the record's own
\* lang otherwise: for a title from the romaji slot, and when no slot is
\* filled and the primary title is returned.
TitleLanguageBySlot ==
    fn = "get_preferred_title" =>
       fn_out.lang =
          IF Truthy(fn_out.title) /\ fn_out.title = fn_out.options.en THEN "en"
          ELSE IF Truthy(fn_out.title) /\ fn_out.title = fn_out.options.ja THEN "ja"
          ELSE fn_in.book.lang

\* the same, for the calls in which some slot is filled
TitleLanguageWhenResolved ==
    fn = "get_preferred_title" /\ (\E k \in LangSet : Truthy(fn_out.options[k])) =>
       fn_out.lang =
          IF fn_out.title = fn_out.options.en THEN "en"
          ELSE IF fn_out.title = fn_out.options.ja THEN "ja"
          ELSE fn_in.book.lang

\* C28 as stated: the primary title gets into the en slot only when no
\* alternate filled the slot and the title is ASCII-looking; a title that
\* is not ASCII-looking never becomes the en slot's value.
AsciiOnlyIntoEnglishSlot ==
    fn = "get_preferred_title" /\ NoEnglishAlternate(fn_in.book)
          /\ Truthy(fn_out.options.en) =>
       \A i \in 1..Len(fn_in.book.title) : fn_in.book.title[i] \notin NonAsciiChars

\* C28: the primary title gets into the en slot only when no alternate
\* filled the slot and either the record's lang is en or the title is
\* ASCII-looking; a title that is not ASCII-looking never becomes the en
\* slot's value of a record whose lang is not en, and an English alternate
\* is never replaced by the primary title.
PrimaryIntoEnglishSlot ==
    fn = "get_preferred_title" =>
       LET book == fn_in.book
           ascii == \A i \in 1..Len(book.title) : book.title[i] \notin NonAsciiChars
       IN  IF NoEnglishAlternate(book)
           THEN /\ Truthy(fn_out.options.en) <=>
                      (book.title # None /\ book.title # Empty /\ (book.lang = "en" \/ ascii))
                /\ Truthy(fn_out.options.en) => fn_out.options.en = book.title
           ELSE \E k \in 1..Len(book.titles) :
                   /\ book.titles[k].lang = "en"
                   /\ fn_out.options.en = book.titles[k].title

\* an English record's title with a non-ASCII letter fills the en slot
EnglishPrimaryNotAscii ==
    /\ fn = "get_preferred_title"
    /\ NoEnglishAlternate(fn_in.book)
    /\ fn_in.book.lang = "en"
    /\ \E i \in 1..Len(fn_in.book.title) : fn_in.book.title[i] \in NonAsciiChars
    /\ fn_out.options.en = fn_in.book.title
    /\ fn_out.title = fn_in.book.title

\* C29: the romanized name of an author fills the en and romaji slots, the
\* original name ja: the resolved name is the original one exactly when
\* that is not empty and ja is first in the preference order or the
\* romanized name is empty; otherwise it is the romanized name, whichever
\* of en and romaji comes first.
AuthorNameBySlots ==
    fn = "resolve_author" =>
       LET codes == fn_in.codes
           known == {k \in 1..Len(codes) : codes[k].tag # "none"}
           jaFirst == \E k \in known : /\ codes[k].tag = "ja"
                                       /\ \A j \in known : k <= j
           romaji == fn_in.staff.romaji
           name == fn_in.staff.name
       IN  IF name # None /\ name # Empty /\ (jaFirst \/ romaji = None \/ romaji = Empty)
           THEN fn_out = name
           ELSE IF romaji # None /\ romaji # Empty THEN fn_out = romaji
           ELSE fn_out = None

\* romaji before ja in the preference, both names there: the romanized one
RomanizedNameBeforeOriginal ==
    /\ fn = "resolve_author"
    /\ Len(fn_in.codes) = 2
    /\ fn_in.codes[1].tag = "romaji" /\ fn_in.codes[2].tag = "ja"
    /\ Truthy(fn_in.staff.romaji) /\ Truthy(fn_in.staff.name)
    /\ fn_out = fn_in.staff.romaji

\* C30: the description follows the preference: en gives the English text
\* when there is one, else the Japanese; ja the Japanese, else the
\* English; both the English, the divider and the Japanese; any other
\* value does what en does; there is no description exactly when both
\* texts are missing.
DescriptionByPreference ==
    fn = "get_description" =>
       LET e == fn_in.description
           j == fn_in.description_ja
           hasE == e # None /\ e # Empty
           hasJ == j # None /\ j # Empty
           none == fn_out = None \/ fn_out = Empty
       IN  /\ fn_in.pref \in {"en", "xx"} =>
                 IF hasE THEN fn_out = e ELSE IF hasJ THEN fn_out = j ELSE none
           /\ fn_in.pref = "ja" =>
                 IF hasJ THEN fn_out = j ELSE IF hasE THEN fn_out = e ELSE none
           /\ fn_in.pref = "both" /\ hasE /\ hasJ => fn_out = e \o <<"\n\n---\n\n">> \o j
           /\ none <=> (~hasE /\ ~hasJ)

\* an unknown preference and no English text: the Japanese one
UnknownPreferenceFallsBack ==
    /\ fn = "get_description"
    /\ fn_in.pref = "xx"
    /\ fn_in.description = Empty
    /\ fn_out = <<"J">>

CoverCachedAtEmission ==
    [][Len(result_queue'[Host]) > Len(result_queue[Host]) =>
          LET mi == result_queue'[Host][Len(result_queue'[Host])]
              filename == fn_in'.book_data.filename
          IN  /\ mi.id = fn_out'.mi.identifiers.ranobedb
              /\ IF filename # None /\ filename # Empty
                 THEN get_cached_cover_url(cover_url_cache', mi.id)
                         = <<"https://images.ranobedb.org">> \o <<"/">> \o filename
                 ELSE cover_url_cache' = cover_url_cache]_vars

\* the result of a record with an image is on the queue and its URL cached
EmittedWithCover ==
    /\ fn \in {"book_to_metadata", "book_to_metadata_repeated"}
    /\ Len(result_queue[Host]) = 1
    /\ Truthy(fn_in.book_data.filename)
    /\ cover_url_cache[result_queue[Host][1].id] =
          <<"https://images.ranobedb.org", "/">> \o fn_in.book_data.filename

(***************************************************************************)
(* The query identify searches with.                                       *)
(***************************************************************************)
\* the spellings of the placeholder author
PlaceholderSpellings == {<<"unknown">>, <<"Unknown">>, <<"UNKNOWN">>}

\* the parts with something in them, a space between each two
SpaceSeparated(parts) == Join(SelectSeq(parts, LAMBDA p : Len(p) > 0), <<" ">>)

\* the title, the first author and the validated ISBN a query is to hold
QueryTitlePart(title) == IF title = None THEN Empty ELSE title
QueryAuthorPart(authors) ==
    IF Len(authors) > 0 /\ authors[1] \notin PlaceholderSpellings THEN authors[1] ELSE Empty
QueryIsbnPart(isbn) ==
    IF isbn \in {None, Empty} \/ check_isbn(isbn) = None THEN Empty ELSE check_isbn(isbn)

\* C31: the query is the title, then the first author unless that is the
\* placeholder 'unknown' in any spelling, then the validated ISBN; without title
\* and author it is the ISBN alone; a rejected ISBN is never part of it
SearchQueryComposition ==
    fn = "search_query" =>
       /\ fn_out.query = SpaceSeparated(<<QueryTitlePart(fn_in.title),
                                          QueryAuthorPart(fn_in.authors),
                                          QueryIsbnPart(fn_in.isbn)>>)
       /\ (QueryTitlePart(fn_in.title) = Empty /\ QueryAuthorPart(fn_in.authors) = Empty
             /\ fn_out.searched)
          => fn_out.query = check_isbn(fn_in.isbn)
       /\ check_isbn(fn_in.isbn) = None =>
             \A k \in 1..Len(fn_out.query) : fn_out.query[k] \notin Digits

\* a query of title and ISBN, the placeholder in capitals left out
QueryWithoutPlaceholder ==
    /\ fn = "search_query"
    /\ fn_in.authors = << <<"UNKNOWN">> >>
    /\ fn_in.isbn = Isbn13Hyphen
    /\ fn_out.query = <<"Overlord", " ">> \o Isbn13

\* the tags of the codes of a preference string that are language codes
RecognizedTags(codes) ==
    SelectSeq([i \in 1..Len(codes) |-> codes[i].tag], LAMBDA tag : tag # "none")

\* C32: the search request carries rl[]=en exactly when the parsed language
\* order starts with en; it carries no rl[] when the first recognized code of
\* the preference string stands for ja or romaji
ReleaseFilterFollowsFirstLanguage ==
    fn = "search_params" =>
       /\ (fn_out.params.rl = "en") <=> (fn_out.lang_order[1] = "en")
       /\ fn_out.params.rl \in {"en", NoParam}
       /\ (Len(RecognizedTags(fn_in.codes)) > 0
             /\ RecognizedTags(fn_in.codes)[1] \in {"ja", "romaji"})
          => fn_out.params.rl = NoParam

\* a search under a preference that names Japanese after an unknown code
SearchedWithJapaneseFirst ==
    /\ fn = "search_params"
    /\ Len(fn_in.codes) = 2
    /\ fn_in.codes[1].tag = "none"
    /\ fn_in.codes[2].tag = "ja"
    /\ fn_out.params.rl = NoParam
    /\ fn_out.lang_order = <<"ja", "en", "romaji">>

\* the text holds the divider somewhere
HoldsDivider(text) == \E k \in 1..Len(text) : <<text[k]>> = Divider

\* C33: with the preference 'both' the divider is in the description only
\* when the English and the Japanese text are both there; with one of them
\* alone the description is that text and nothing else.
DividerOnlyBetweenTexts ==
    (fn = "get_description" /\ fn_in.pref = "both") =>
       LET e == fn_in.description
           j == fn_in.description_ja
       IN  /\ HoldsDivider(fn_out) => (Truthy(e) /\ Truthy(j))
           /\ (Truthy(e) /\ ~Truthy(j)) => fn_out = e
           /\ (Truthy(j) /\ ~Truthy(e)) => fn_out = j

\* C34: at every point of a call the results on the queue are as many as
\* the detail fetches of the call that gave book data: every such fetch is
\* followed by one emission, and nothing is emitted without one.
ResultsMatchFetches ==
    \A t \in Threads :
        op[t] \in {"identify", "download_cover"} => Len(result_queue[t]) = fetched[t]

\* the positions of a thread from the start of a request to its answer
RequestPositions == {"rate_limit", "sleep", "stamp", "open", "wait"}
\* what a request that gave no data is answered with
NoDataOutcomes == {"failed", "notfound"}

\* C35: a direct lookup, a search or a candidate fetch that ends in failure
\* leaves the result queue, the cover queue, the ISBN cache and the cover URL
\* cache as they were when the request started; on the way only the
\* limiter's timestamp and the call's own position change.
FailedRequestLeavesState ==
    [][\A t \in Threads :
          (/\ pc[t] \in RequestPositions
           /\ req[t].kind \in IdentifyKinds
           /\ Len(outcomes'[t]) > Len(outcomes[t])
                 => outcomes'[t][Len(outcomes'[t])] \in NoDataOutcomes)
          => /\ UNCHANGED <<result_queue, cover_queue, isbn_cache, cover_url_cache>>
             /\ Len(outcomes'[t]) > Len(outcomes[t])
                   => UNCHANGED <<since_last_request, rate_lock, abort, inp, search_results>>
      ]_vars

\* a candidate fetch has failed after another candidate's result was emitted
\* and cached
FailedAfterEmission ==
    /\ pc[Host] = "loop"
    /\ Len(outcomes[Host]) = 3
    /\ outcomes[Host][3] = "failed"
    /\ reqLog[Host][3].kind = "detail"
    /\ Len(result_queue[Host]) = 1
    /\ cover_url_cache[result_queue[Host][1].id] # None
    /\ isbn_cache[Isbn13] = result_queue[Host][1].id

\* C38: download_cover polls the abort event when its identify has returned
\* and again before the image fetch; a poll that finds it set ends the call
\* with no image request and nothing emitted, whatever identify has emitted
\* and cached.
CoverPollsStopDownload ==
    [][\A t \in Threads :
          (/\ op[t] = "download_cover"
           /\ pc[t] \in {"after_identify", "cover_poll"}
           /\ abort[t]
           /\ pc'[t] # pc[t])
          => /\ pc'[t] = "done"
             /\ req'[t] = NoReq
             /\ cover_queue'[t] = <<>>
             /\ \A i \in 1..Len(reqLog'[t]) : reqLog'[t][i].kind # "cover"
             /\ result_queue'[t] = result_queue[t]]_vars

\* the event was set while identify waited for its last answer: identify
\* emitted a result with a cached cover URL, no poll of identify saw the
\* event, and download_cover returned without fetching the image
CoverAbandonedWithUrlCached ==
    /\ op[Host] = "download_cover"
    /\ pc[Host] = "done"
    /\ abort[Host]
    /\ ~observed[Host]
    /\ Len(result_queue[Host]) >= 1
    /\ cover_url_cache[result_queue[Host][1].id] # None
    /\ cover_queue[Host] = <<>>
    /\ "cover" \notin KindsOf(Host)

\* the positions inside `with self._rate_lock:`
InsideRateLock == {"sleep", "stamp"}

\* C37: the lock is held only by a thread inside the with block of
\* _rate_limit, so every exit has released it, and every thread that calls
\* _rate_limit is granted and returns.
RateLimitNeverDeadlocks ==
    /\ [](\A t \in Threads : (rate_lock = t) <=> (pc[t] \in InsideRateLock))
    /\ \A t \in Threads : (pc[t] = "rate_limit") ~> (pc[t] = "open" /\ rate_lock # t)
    /\ \A t \in Threads : (pc[t] = "open") ~> (pc[t] = "idle")

\* every thread has made all its calls, was granted each time and has
\* returned, and the lock is free
AllCallersReturned ==
    /\ \A t \in Threads : pc[t] = "idle" /\ calls[t] >= 2 /\ nGrants[t] = calls[t]
    /\ rate_lock = NoThread

\* the requests of one kind the call has issued
RequestsOfKind(t, kind) == {i \in 1..Len(reqLog[t]) : reqLog[t][i].kind = kind}

\* C36: identify issues at most one direct lookup, at most one search and at
\* most one detail fetch for each candidate of the response, each only when
\* the one before has been answered, and every call of identify comes to
\* its end once its requests are answered.
IdentifyTerminates ==
    /\ [](\A t \in Threads :
            /\ Cardinality(RequestsOfKind(t, "direct")) <= 1
            /\ Cardinality(RequestsOfKind(t, "search")) <= 1
            /\ Cardinality(RequestsOfKind(t, "detail")) <= Len(WithIds(search_results[t]))
            /\ Len(reqLog[t]) <= Len(outcomes[t]) + 1
            /\ Len(reqLog[t]) = Len(outcomes[t]) + 1 <=> pc[t] = "wait")
    /\ \A t \in Threads : (pc[t] = "identify") ~> ~InIdentify(t)

\* identify is over after a direct lookup that found nothing, a search and
\* the fetch of every candidate, one request after the other
IdentifyOverAfterAllRequests ==
    /\ op[Host] = "identify"
    /\ pc[Host] = "done"
    /\ Len(search_results[Host]) >= 2
    /\ Len(reqLog[Host]) = Len(search_results[Host]) + 2
    /\ Len(outcomes[Host]) = Len(reqLog[Host])

====
